---- MODULE Spec2Model ----
(***************************************************************************)
(* State-machine model of the doctor appointment system: the booking       *)
(* controller (createBooking, cancelBooking, rescheduleBooking,            *)
(* completeBooking, expirePastBookings), the slot controller (blockSlot,   *)
(* deleteSlot, generateSlots) and the slot generator, running as           *)
(* concurrent request handlers over one MongoDB database.                  *)
(*                                                                         *)
(* One action is one database operation of a handler together with the    *)
(* synchronous code that follows it up to the next await.  Handlers        *)
(* interleave only at their awaits (Node.js runs one callback at a time).  *)
(*                                                                         *)
(* Storage semantics (MongoDB multi-document transactions as driven by     *)
(* mongoose): a write made with { session } stays invisible until          *)
(* commitTransaction and holds the document until then; a transactional    *)
(* write to a document held by another open transaction, or committed by   *)
(* someone else after the transaction's first operation, fails with        *)
(* WriteConflict and aborts the transaction; a read made without the       *)
(* session sees the last committed data; a write made without a session    *)
(* waits for a document held by an open transaction; document.save()       *)
(* sends $set of the modified paths only and throws DocumentNotFoundError  *)
(* when it matches no document.                                            *)
(***************************************************************************)
EXTENDS Integers, Sequences, FiniteSets, TLC

\* ------------------------------------------------------------------ bounds
MaxSlotIds == 2        \* slot documents ever inserted
MaxBookings == 2       \* booking documents ever inserted
MaxTicks == 1          \* how many times the clock advances
MaxRequests == 4       \* requests received in one run
NumRacers == 3         \* concurrent requests in the race specifications

\* --------------------------------------------------------------- constants
DefaultDuration == 30
MinutesPerHour == 60
DUPLICATE_KEY == 11000
Monday == 1              \* dayOfWeek: 0 = Sunday ... 6 = Saturday

AllProcs == 1..NumRacers
MainProcs == {1, 2}
SlotIds == 1..MaxSlotIds
Users == {"u1", "u2", "admin"}
Doctors == {"d1", "d2"}
NoSlot == [status |-> "none"]
\* Errors a database operation throws; code is err.code.
NoError == [name |-> "", code |-> 0]
WriteConflict == [name |-> "WriteConflict", code |-> 112]
DuplicateKeyError == [name |-> "DuplicateKey", code |-> DUPLICATE_KEY]
DocumentNotFoundError == [name |-> "DocumentNotFoundError", code |-> -1]
NoTxn == [active |-> FALSE, locks |-> {}, stale |-> {}, writes |-> <<>>]
\* A handler's locals: the request (op, u: the caller or the timezone label,
\* b: booking id, s: slot id), cur: the loaded booking.slotId, d and nd: the
\* loaded doctor ids, flag: a loaded boolean, todo and count: loop state,
\* args: the remaining fields of req.body.
NoLoc == [op |-> "", u |-> "", b |-> 0, s |-> 0, cur |-> 0, d |-> "", nd |-> "",
          flag |-> FALSE, todo |-> <<>>, count |-> 0, args |-> <<>>]
NoRes == [status |-> 0, message |-> "", count |-> 0, op |-> "", u |-> "", b |-> 0, s |-> 0,
          args |-> <<>>, data |-> <<>>]
ActiveStatuses == {"pending", "confirmed"}
\* The dates requests name: day numbers, date % 7 being the day of the week.
BaseDay == Monday

VARIABLES
  slots,      \* Slot collection: _id -> document, NoSlot when absent
  nextSlot,   \* number of slot documents inserted so far
  bookings,   \* Booking collection: sequence of documents, _id = index
  now,        \* Date.now(), in minutes
  ticks,      \* number of clock advances so far
  pc,         \* per handler: the await it stands at
  loc,        \* per handler: its local variables
  txn,        \* per handler: its session's open transaction
  res,        \* per handler: the response it sent
  wrote,      \* per handler: whether this request has changed committed data
  started     \* number of requests received so far

vars == <<slots, nextSlot, bookings, now, ticks, pc, loc, txn, res, wrote, started>>

\* ------------------------------------------------------------ time utilities
\* 'HH:mm' strings are pairs <<hours, minutes>>.
\* A missing or empty string is <<>>; a part parseInt makes NaN of is -1.
parseTimeString(timeStr) ==
  IF timeStr = <<>> THEN <<>>
  ELSE IF timeStr[1] = -1 \/ timeStr[2] = -1 THEN <<>>
  ELSE [hours |-> timeStr[1], minutes |-> timeStr[2]]

MinutesPerDay == 24 * MinutesPerHour

buildDateTime(dateValue, timeStr) ==
  IF dateValue = -1 THEN -1
  ELSE LET parsed == parseTimeString(timeStr) IN
       IF parsed = <<>> THEN -1
       ELSE dateValue * MinutesPerDay + parsed.hours * MinutesPerHour + parsed.minutes

\* A clock check that never finds a slot in the past.
isSlotInPastAt_Never(slot, t) == FALSE

\* A clock check that also counts the present instant as past.
isSlotInPastAt_NotAfter(slot, t) ==
  IF slot = NoSlot \/ slot.date = -1 THEN FALSE
  ELSE LET timeStr == IF slot.endTime # <<>> THEN slot.endTime ELSE slot.startTime
           dateTime == buildDateTime(slot.date, timeStr) IN
       IF dateTime = -1 THEN FALSE ELSE dateTime <= t

isSlotInPastAt(slot, t) ==
  IF slot = NoSlot \/ slot.date = -1 THEN FALSE
  ELSE LET timeStr == IF slot.endTime # <<>> THEN slot.endTime ELSE slot.startTime
           dateTime == buildDateTime(slot.date, timeStr) IN
       IF dateTime = -1 THEN FALSE ELSE dateTime < t

isSlotInPast(slot) == isSlotInPastAt(slot, now)

\* ------------------------------------------------------------ slot generator
parseTimeToMinutes(timeStr) == timeStr[1] * MinutesPerHour + timeStr[2]

formatMinutesToTime(minutes) == <<minutes \div MinutesPerHour, minutes % MinutesPerHour>>

\* Doctor documents (read-only to the booking and slot code).
Availability(d) ==
  IF d = "d1" THEN <<[dayOfWeek |-> Monday, startTime |-> <<9, 0>>, endTime |-> <<10, 0>>]>>
  ELSE <<[dayOfWeek |-> Monday, startTime |-> <<9, 0>>, endTime |-> <<9, 45>>],
         [dayOfWeek |-> Monday + 1, startTime |-> <<9, 0>>, endTime |-> <<9, 45>>]>>

DoctorExists(d) == d \in Doctors

getDay(date) == date % 7

RECURSIVE WindowSlots_KeepRemainder(_, _, _, _)
\* An inner loop that also emits the remainder of the window as a short slot.
WindowSlots_KeepRemainder(date, t, endMinutes, duration) ==
  IF t + duration <= endMinutes
  THEN <<[date |-> date, startTime |-> formatMinutesToTime(t),
          endTime |-> formatMinutesToTime(t + duration)]>>
       \o WindowSlots_KeepRemainder(date, t + duration, endMinutes, duration)
  ELSE IF t < endMinutes
  THEN <<[date |-> date, startTime |-> formatMinutesToTime(t),
          endTime |-> formatMinutesToTime(endMinutes)]>>
  ELSE <<>>

RECURSIVE WindowSlots(_, _, _, _)
\* The inner loop: for (t = startMinutes; t + duration <= endMinutes; t += duration)
WindowSlots(date, t, endMinutes, duration) ==
  IF t + duration <= endMinutes
  THEN <<[date |-> date, startTime |-> formatMinutesToTime(t),
          endTime |-> formatMinutesToTime(t + duration)]>>
       \o WindowSlots(date, t + duration, endMinutes, duration)
  ELSE <<>>

RECURSIVE DaySlots(_, _, _, _)
\* for (const avail of dayAvailability), windows taken in the stored order
DaySlots(avail, i, date, duration) ==
  IF i > Len(avail) THEN <<>>
  ELSE (IF avail[i].dayOfWeek = getDay(date)
        THEN WindowSlots(date, parseTimeToMinutes(avail[i].startTime),
                         parseTimeToMinutes(avail[i].endTime), duration)
        ELSE <<>>)
       \o DaySlots(avail, i + 1, date, duration)

RECURSIVE RangeSlots(_, _, _, _)
\* for (current = start; current <= end; current + 1 day)
RangeSlots(d, current, end, duration) ==
  IF current > end THEN <<>>
  ELSE DaySlots(Availability(d), 1, current, duration)
       \o RangeSlots(d, current + 1, end, duration)

\* const duration = Number(slotDurationMinutes) || 30: 0 is a field that is
\* absent, zero or not a number; a negative number is kept as it is.
EffectiveDuration(slotDurationMinutes) ==
  IF slotDurationMinutes = 0 THEN DefaultDuration ELSE slotDurationMinutes

\* ------------------------------------------------------------ storage layer
IsActive(doc) == doc.bookingStatus \in ActiveStatuses

BookingIds == 1..Len(bookings)

\* Booking.findOne({ slotId, bookingStatus: { $in: ['pending','confirmed'] }, _id: { $ne: id } })
ActiveBookingOn(s, except) ==
  \E b \in BookingIds : b # except /\ bookings[b].slotId = s /\ IsActive(bookings[b])

SlotDoc(s) == <<"slot", s>>
BookingDoc(b) == <<"booking", b>>
\* The entry for slot s in the partial unique index { slotId: 1 } of Booking.
IndexKey(s) == <<"idx", s>>

\* r is held by an open transaction of another session.
Held(p, r) == \E q \in AllProcs \ {p} : txn[q].active /\ r \in txn[q].locks

\* A storage whose transactions never conflict.
WriteConflicts_Never(p, rs) == FALSE

\* A transactional write of session p to the resources rs cannot proceed.
WriteConflicts(p, rs) == \E r \in rs : Held(p, r) \/ r \in txn[p].stale

\* The index entries an update of booking b touches: a booking is in the
\* partial index only while its status is pending or confirmed.
IndexKeysOfUpdate(b, set) ==
  LET old == bookings[b]
      new == [f \in DOMAIN old |-> IF f \in DOMAIN set THEN set[f] ELSE old[f]]
  IN  (IF IsActive(old) /\ (~IsActive(new) \/ new.slotId # old.slotId)
       THEN {IndexKey(old.slotId)} ELSE {})
      \cup
      (IF IsActive(new) /\ (~IsActive(old) \/ new.slotId # old.slotId)
       THEN {IndexKey(new.slotId)} ELSE {})

\* A unique index { slotId: 1 } without the partial filter: every booking of
\* slot s counts, whatever its status.
DuplicateKey_AnyStatus(s, except) ==
  \E b \in BookingIds : b # except /\ bookings[b].slotId = s

\* The partial unique index rejects a second active booking of slot s.
DuplicateKey(s, except) == ActiveBookingOn(s, except)

ApplyWrite(db, w) ==
  IF w.kind = "slot"
  THEN [db EXCEPT !.slots[w.id] =
          [f \in DOMAIN @ |-> IF f \in DOMAIN w.set THEN w.set[f] ELSE @[f]]]
  ELSE IF w.kind = "booking"
  THEN [db EXCEPT !.bookings[w.id] =
          [f \in DOMAIN @ |-> IF f \in DOMAIN w.set THEN w.set[f] ELSE @[f]]]
  ELSE [db EXCEPT !.bookings = Append(@, w.doc)]

\* A commit that makes only the first write of the transaction visible.
ApplyWrites_FirstOnly(db, ws) ==
  IF ws = <<>> THEN db ELSE ApplyWrite(db, Head(ws))

RECURSIVE ApplyWrites(_, _)
ApplyWrites(db, ws) ==
  IF ws = <<>> THEN db ELSE ApplyWrites(ApplyWrite(db, Head(ws)), Tail(ws))

\* Other open transactions see rs as changed after their snapshot.
MarkStale(t, p, rs) ==
  [q \in AllProcs |->
     IF q # p /\ t[q].active THEN [t[q] EXCEPT !.stale = @ \cup rs] ELSE t[q]]

\* session.startTransaction() takes effect with the first operation of the session.
TxnAdd(p, rs, w) ==
  [txn EXCEPT ![p] = [active |-> TRUE, locks |-> @.locks \cup rs,
                      stale |-> @.stale, writes |-> Append(@.writes, w)]]

\* session.abortTransaction(): the pending writes are dropped.
abortTransaction(p) == [txn EXCEPT ![p] = NoTxn]

\* session.commitTransaction(): every pending write becomes visible at once.
commitTransaction(p) ==
  LET db == ApplyWrites([slots |-> slots, bookings |-> bookings], txn[p].writes)
  IN  /\ slots' = db.slots
      /\ bookings' = db.bookings
      /\ txn' = MarkStale([txn EXCEPT ![p] = NoTxn], p, txn[p].locks)
      /\ wrote' = [wrote EXCEPT ![p] = @ \/ txn[p].writes # <<>>]

\* The error of slot.save({ session }) on slot s, NoError when it succeeds.
SaveSlotError(p, s) ==
  IF WriteConflicts(p, {SlotDoc(s)}) THEN WriteConflict
  ELSE IF slots[s] = NoSlot THEN DocumentNotFoundError
  ELSE NoError

\* The error of booking.save({ session }) sending $set to booking b.
SaveBookingError(p, b, set) ==
  IF WriteConflicts(p, {BookingDoc(b)} \cup IndexKeysOfUpdate(b, set)) THEN WriteConflict
  ELSE IF "slotId" \in DOMAIN set /\ IsActive(bookings[b])
          /\ set.slotId # bookings[b].slotId /\ DuplicateKey(set.slotId, b)
       THEN DuplicateKeyError
  ELSE NoError

\* Booking.create on a collection without the unique index.
InsertBookingError_NoIndex(p, doc) ==
  IF WriteConflicts(p, {IndexKey(doc.slotId)}) THEN WriteConflict ELSE NoError

\* The error of Booking.create([doc], { session }).
InsertBookingError(p, doc) ==
  IF WriteConflicts(p, {IndexKey(doc.slotId)}) THEN WriteConflict
  ELSE IF IsActive(doc) /\ DuplicateKey(doc.slotId, 0) THEN DuplicateKeyError
  ELSE NoError


\* A write outside any transaction: it waits while a transaction holds the
\* document, then takes effect at once.
DirectWrite(p, rs, w) ==
  /\ \A r \in rs : ~Held(p, r)
  /\ LET db == ApplyWrite([slots |-> slots, bookings |-> bookings], w) IN
       /\ slots' = db.slots
       /\ bookings' = db.bookings
  /\ txn' = MarkStale(txn, p, rs)
  /\ wrote' = [wrote EXCEPT ![p] = TRUE]

\* ------------------------------------------------------------ responses
\* The request a handler serves.
Request(op, u, b, s) == [NoLoc EXCEPT !.op = op, !.u = u, !.b = b, !.s = s]

\* res.status(status).json({ message, count }) of the handler with locals l
RespondCount(p, l, status, message, count) ==
  /\ pc' = [pc EXCEPT ![p] = "done"]
  /\ res' = [res EXCEPT ![p] = [status |-> status, message |-> message, count |-> count,
                                op |-> l.op, u |-> l.u, b |-> l.b, s |-> l.s,
                                args |-> l.args, data |-> <<>>]]
  /\ loc' = [loc EXCEPT ![p] = NoLoc]

Respond(p, l, status, message) == RespondCount(p, l, status, message, 0)

\* res.status(200).json({ success: true, count: slots.length, data: slots })
RespondData(p, l, data) ==
  /\ pc' = [pc EXCEPT ![p] = "done"]
  /\ res' = [res EXCEPT ![p] = [status |-> 200, message |-> "", count |-> Len(data),
                                op |-> l.op, u |-> l.u, b |-> l.b, s |-> l.s,
                                args |-> l.args, data |-> data]]
  /\ loc' = [loc EXCEPT ![p] = NoLoc]

\* The handler goes on to its next await with locals l.
Goto(p, label, l) ==
  /\ pc' = [pc EXCEPT ![p] = label]
  /\ loc' = [loc EXCEPT ![p] = l]
  /\ res' = res

\* The handler returns; the next request of this connection may start.
Finish(p) ==
  /\ pc[p] = "done"
  /\ pc' = [pc EXCEPT ![p] = "idle"]
  /\ res' = [res EXCEPT ![p] = NoRes]
  /\ wrote' = [wrote EXCEPT ![p] = FALSE]
  /\ UNCHANGED <<slots, nextSlot, bookings, now, ticks, loc, txn, started>>

\* Date.now() advances.
Tick ==
  /\ ticks < MaxTicks
  /\ ticks' = ticks + 1
  /\ now' = now + DefaultDuration
  /\ UNCHANGED <<slots, nextSlot, bookings, pc, loc, txn, res, wrote, started>>

\* ------------------------------------------------------------ createBooking
\* The guards of the slot with the status guard ahead of the past guard.
createBooking_findSlot_StatusFirst(p, userId, slotId) ==
  /\ pc[p] = "idle"
  /\ LET slot == slots[slotId]
         l == Request("createBooking", userId, 0, slotId) IN
       IF slot = NoSlot THEN Respond(p, l, 404, "Slot not found")
       ELSE IF slot.status # "available"
            THEN Respond(p, l, 400, "Slot is not available for booking")
       ELSE IF isSlotInPast(slot) THEN Respond(p, l, 400, "Cannot book a slot in the past")
       ELSE Goto(p, "cExisting", [l EXCEPT !.d = slot.doctorId])
  /\ UNCHANGED <<slots, nextSlot, bookings, now, ticks, txn, wrote>>

\* const slot = await Slot.findById(slotId), then the past and status guards
createBooking_findSlot(p, userId, slotId) ==
  /\ pc[p] = "idle"
  /\ LET slot == slots[slotId]
         l == Request("createBooking", userId, 0, slotId) IN
       IF slot = NoSlot THEN Respond(p, l, 404, "Slot not found")
       ELSE IF isSlotInPast(slot) THEN Respond(p, l, 400, "Cannot book a slot in the past")
       ELSE IF slot.status # "available"
            THEN Respond(p, l, 400, "Slot is not available for booking")
       ELSE Goto(p, "cExisting", [l EXCEPT !.d = slot.doctorId])
  /\ UNCHANGED <<slots, nextSlot, bookings, now, ticks, txn, wrote>>

\* const existingBooking = await Booking.findOne({ slotId, bookingStatus: active })
createBooking_findExisting(p) ==
  /\ pc[p] = "cExisting"
  /\ IF ActiveBookingOn(loc[p].s, 0) THEN Respond(p, loc[p], 400, "Slot is already booked")
     ELSE Goto(p, "cDoctor", loc[p])
  /\ UNCHANGED <<slots, nextSlot, bookings, now, ticks, txn, wrote>>

\* const doctor = await Doctor.findById(slot.doctorId)
createBooking_findDoctor(p) ==
  /\ pc[p] = "cDoctor"
  /\ IF ~DoctorExists(loc[p].d) THEN Respond(p, loc[p], 404, "Doctor not found")
     ELSE Goto(p, "cSaveSlot", loc[p])
  /\ UNCHANGED <<slots, nextSlot, bookings, now, ticks, txn, wrote>>

\* catch (err): abortTransaction; 11000 becomes 'Slot is already booked', the rest is rethrown
createBooking_catch(p, err) ==
  /\ txn' = abortTransaction(p)
  /\ IF err.code = DUPLICATE_KEY THEN Respond(p, loc[p], 400, "Slot is already booked")
     ELSE Respond(p, loc[p], 500, "Server error while creating booking")

\* slot.status = 'booked'; await slot.save({ session })
createBooking_saveSlot(p) ==
  /\ pc[p] = "cSaveSlot"
  /\ LET err == SaveSlotError(p, loc[p].s) IN
       IF err # NoError THEN createBooking_catch(p, err)
       ELSE /\ txn' = TxnAdd(p, {SlotDoc(loc[p].s)},
                             [kind |-> "slot", id |-> loc[p].s, set |-> [status |-> "booked"]])
            /\ Goto(p, "cInsert", loc[p])
  /\ UNCHANGED <<slots, nextSlot, bookings, now, ticks, wrote>>

\* Booking documents inserted by open transactions (the model keeps at most MaxBookings).
PendingInserts == Cardinality({q \in AllProcs : pc[q] = "cCommit"})

\* A booking document left at the schema default status.
NewBooking_Pending(userId, slotId, doctorId) ==
  [userId |-> userId, slotId |-> slotId, doctorId |-> doctorId,
   bookingStatus |-> "pending", cancellationReason |-> FALSE]

\* { userId, slotId, doctorId: slot.doctorId, bookingStatus: 'confirmed' }
NewBooking(userId, slotId, doctorId) ==
  [userId |-> userId, slotId |-> slotId, doctorId |-> doctorId,
   bookingStatus |-> "confirmed", cancellationReason |-> FALSE]

\* await Booking.create([NewBooking], { session })
createBooking_insert(p) ==
  /\ pc[p] = "cInsert"
  /\ Len(bookings) + PendingInserts < MaxBookings
  /\ LET doc == NewBooking(loc[p].u, loc[p].s, loc[p].d)
         err == InsertBookingError(p, doc) IN
       IF err # NoError THEN createBooking_catch(p, err)
       ELSE /\ txn' = TxnAdd(p, {IndexKey(doc.slotId)}, [kind |-> "insert", doc |-> doc])
            /\ Goto(p, "cCommit", loc[p])
  /\ UNCHANGED <<slots, nextSlot, bookings, now, ticks, wrote>>

\* await session.commitTransaction(); 201
createBooking_commit(p) ==
  /\ pc[p] = "cCommit"
  /\ commitTransaction(p)
  /\ Respond(p, loc[p], 201, "Booking created successfully")
  /\ UNCHANGED <<nextSlot, now, ticks>>

createBooking(p, in) ==
  \/ \E userId \in in.creators, slotId \in in.slots : createBooking_findSlot(p, userId, slotId)
  \/ createBooking_findExisting(p)
  \/ createBooking_findDoctor(p)
  \/ createBooking_saveSlot(p)
  \/ createBooking_insert(p)
  \/ createBooking_commit(p)

\* ------------------------------------------------------------ cancelBooking
\* A role check that lets every caller pass as an admin.
Role_AlwaysAdmin(userId) == "admin"

\* req.user.role
Role(userId) == IF userId = "admin" THEN "admin" ELSE "user"

\* A first step of cancel that has the permission guard and no status guard.
cancelBooking_findBooking_NoStatusGuard(p, userId, id, cancellationReason) ==
  /\ pc[p] = "idle"
  /\ LET l == [Request("cancelBooking", userId, id, 0) EXCEPT !.flag = cancellationReason] IN
     IF id > Len(bookings) THEN Respond(p, l, 404, "Booking not found")
     ELSE LET booking == bookings[id] IN
       IF Role(userId) # "admin" /\ booking.userId # userId
       THEN Respond(p, l, 403, "Not authorized to cancel this booking")
       ELSE Goto(p, "xCurrentSlot", [l EXCEPT !.cur = booking.slotId])
  /\ UNCHANGED <<slots, nextSlot, bookings, now, ticks, txn, wrote>>

\* A first step of cancel with the status guards ahead of the permission guard.
cancelBooking_findBooking_StatusFirst(p, userId, id, cancellationReason) ==
  /\ pc[p] = "idle"
  /\ LET l == [Request("cancelBooking", userId, id, 0) EXCEPT !.flag = cancellationReason] IN
     IF id > Len(bookings) THEN Respond(p, l, 404, "Booking not found")
     ELSE LET booking == bookings[id] IN
       IF booking.bookingStatus = "cancelled"
       THEN Respond(p, l, 400, "Booking is already cancelled")
       ELSE IF booking.bookingStatus = "completed"
       THEN Respond(p, l, 400, "Cannot cancel a completed booking")
       ELSE IF booking.bookingStatus = "expired"
       THEN Respond(p, l, 400, "Cannot cancel an expired booking")
       ELSE IF Role(userId) # "admin" /\ booking.userId # userId
       THEN Respond(p, l, 403, "Not authorized to cancel this booking")
       ELSE Goto(p, "xCurrentSlot", [l EXCEPT !.cur = booking.slotId])
  /\ UNCHANGED <<slots, nextSlot, bookings, now, ticks, txn, wrote>>

\* const booking = await Booking.findById(id), then the permission and status guards
cancelBooking_findBooking(p, userId, id, cancellationReason) ==
  /\ pc[p] = "idle"
  /\ LET l == [Request("cancelBooking", userId, id, 0) EXCEPT !.flag = cancellationReason] IN
     IF id > Len(bookings) THEN Respond(p, l, 404, "Booking not found")
     ELSE LET booking == bookings[id] IN
       IF Role(userId) # "admin" /\ booking.userId # userId
       THEN Respond(p, l, 403, "Not authorized to cancel this booking")
       ELSE IF booking.bookingStatus = "cancelled"
       THEN Respond(p, l, 400, "Booking is already cancelled")
       ELSE IF booking.bookingStatus = "completed"
       THEN Respond(p, l, 400, "Cannot cancel a completed booking")
       ELSE IF booking.bookingStatus = "expired"
       THEN Respond(p, l, 400, "Cannot cancel an expired booking")
       ELSE Goto(p, "xCurrentSlot", [l EXCEPT !.cur = booking.slotId])
  /\ UNCHANGED <<slots, nextSlot, bookings, now, ticks, txn, wrote>>

\* const currentSlot = await Slot.findById(booking.slotId)
cancelBooking_findCurrentSlot(p) ==
  /\ pc[p] = "xCurrentSlot"
  /\ LET currentSlot == slots[loc[p].cur] IN
       IF currentSlot # NoSlot /\ isSlotInPast(currentSlot)
       THEN Respond(p, loc[p], 400, "Cannot cancel a booking for a past slot")
       ELSE Goto(p, "xSaveBooking", loc[p])
  /\ UNCHANGED <<slots, nextSlot, bookings, now, ticks, txn, wrote>>

\* catch (err): abortTransaction; rethrown to the outer catch
cancelBooking_catch(p) ==
  /\ txn' = abortTransaction(p)
  /\ Respond(p, loc[p], 500, "Server error while cancelling booking")

\* booking.bookingStatus = 'cancelled'; cancellationReason if given; await booking.save({ session })
cancelBooking_saveBooking(p) ==
  /\ pc[p] = "xSaveBooking"
  /\ LET set == IF loc[p].flag
                THEN [bookingStatus |-> "cancelled", cancellationReason |-> TRUE]
                ELSE [bookingStatus |-> "cancelled"]
         err == SaveBookingError(p, loc[p].b, set) IN
       IF err # NoError THEN cancelBooking_catch(p)
       ELSE /\ txn' = TxnAdd(p, {BookingDoc(loc[p].b)} \cup IndexKeysOfUpdate(loc[p].b, set),
                             [kind |-> "booking", id |-> loc[p].b, set |-> set])
            /\ Goto(p, "xSlot", loc[p])
  /\ UNCHANGED <<slots, nextSlot, bookings, now, ticks, wrote>>

\* const slot = await Slot.findById(booking.slotId): read without the session;
\* slot.status = 'available' modifies the document only when it was not available
cancelBooking_findSlot(p) ==
  /\ pc[p] = "xSlot"
  /\ LET slot == slots[loc[p].cur] IN
       IF slot # NoSlot /\ slot.status # "available"
       THEN Goto(p, "xSaveSlot", loc[p])
       ELSE Goto(p, "xCommit", loc[p])
  /\ UNCHANGED <<slots, nextSlot, bookings, now, ticks, txn, wrote>>

\* await slot.save({ session })
cancelBooking_saveSlot(p) ==
  /\ pc[p] = "xSaveSlot"
  /\ LET err == SaveSlotError(p, loc[p].cur) IN
       IF err # NoError THEN cancelBooking_catch(p)
       ELSE /\ txn' = TxnAdd(p, {SlotDoc(loc[p].cur)},
                             [kind |-> "slot", id |-> loc[p].cur, set |-> [status |-> "available"]])
            /\ Goto(p, "xCommit", loc[p])
  /\ UNCHANGED <<slots, nextSlot, bookings, now, ticks, wrote>>

\* await session.commitTransaction(); 200
cancelBooking_commit(p) ==
  /\ pc[p] = "xCommit"
  /\ commitTransaction(p)
  /\ Respond(p, loc[p], 200, "Booking cancelled successfully")
  /\ UNCHANGED <<nextSlot, now, ticks>>

cancelBooking(p, in) ==
  \/ \E userId \in in.actors, id \in 1..MaxBookings, reason \in in.reasons :
       cancelBooking_findBooking(p, userId, id, reason)
  \/ cancelBooking_findCurrentSlot(p)
  \/ cancelBooking_saveBooking(p)
  \/ cancelBooking_findSlot(p)
  \/ cancelBooking_saveSlot(p)
  \/ cancelBooking_commit(p)

\* ------------------------------------------------------------ rescheduleBooking
\* The first step of a reschedule whose owner guard has the admin override of cancelBooking.
rescheduleBooking_findBooking_AdminOverride(p, userId, id, newSlotId) ==
  /\ pc[p] = "idle"
  /\ LET l == Request("rescheduleBooking", userId, id, newSlotId) IN
     IF id > Len(bookings) THEN Respond(p, l, 404, "Booking not found")
     ELSE LET booking == bookings[id] IN
       IF userId # "admin" /\ booking.userId # userId
       THEN Respond(p, l, 403, "Not authorized to reschedule this booking")
       ELSE IF booking.bookingStatus = "cancelled"
       THEN Respond(p, l, 400, "Cannot reschedule a cancelled booking")
       ELSE IF booking.bookingStatus = "completed"
       THEN Respond(p, l, 400, "Cannot reschedule a completed booking")
       ELSE IF booking.bookingStatus = "expired"
       THEN Respond(p, l, 400, "Cannot reschedule an expired booking")
       ELSE Goto(p, "rCurrentSlot", [l EXCEPT !.cur = booking.slotId, !.d = booking.doctorId])
  /\ UNCHANGED <<slots, nextSlot, bookings, now, ticks, txn, wrote>>

\* const booking = await Booking.findById(id), then the owner and status guards
rescheduleBooking_findBooking(p, userId, id, newSlotId) ==
  /\ pc[p] = "idle"
  /\ LET l == Request("rescheduleBooking", userId, id, newSlotId) IN
     IF id > Len(bookings) THEN Respond(p, l, 404, "Booking not found")
     ELSE LET booking == bookings[id] IN
       IF booking.userId # userId
       THEN Respond(p, l, 403, "Not authorized to reschedule this booking")
       ELSE IF booking.bookingStatus = "cancelled"
       THEN Respond(p, l, 400, "Cannot reschedule a cancelled booking")
       ELSE IF booking.bookingStatus = "completed"
       THEN Respond(p, l, 400, "Cannot reschedule a completed booking")
       ELSE IF booking.bookingStatus = "expired"
       THEN Respond(p, l, 400, "Cannot reschedule an expired booking")
       ELSE Goto(p, "rCurrentSlot", [l EXCEPT !.cur = booking.slotId, !.d = booking.doctorId])
  /\ UNCHANGED <<slots, nextSlot, bookings, now, ticks, txn, wrote>>

\* const currentSlot = await Slot.findById(booking.slotId)
rescheduleBooking_findCurrentSlot(p) ==
  /\ pc[p] = "rCurrentSlot"
  /\ LET currentSlot == slots[loc[p].cur] IN
       IF currentSlot # NoSlot /\ isSlotInPast(currentSlot)
       THEN Respond(p, loc[p], 400, "Cannot reschedule a booking for a past slot")
       ELSE Goto(p, "rNewSlot", loc[p])
  /\ UNCHANGED <<slots, nextSlot, bookings, now, ticks, txn, wrote>>

\* const newSlot = await Slot.findById(newSlotId), then the past and status guards
rescheduleBooking_findNewSlot(p) ==
  /\ pc[p] = "rNewSlot"
  /\ LET newSlot == slots[loc[p].s] IN
       IF newSlot = NoSlot THEN Respond(p, loc[p], 404, "New slot not found")
       ELSE IF isSlotInPast(newSlot) THEN Respond(p, loc[p], 400, "Cannot reschedule to a past slot")
       ELSE IF newSlot.status # "available" THEN Respond(p, loc[p], 400, "New slot is not available")
       ELSE Goto(p, "rExisting", [loc[p] EXCEPT !.nd = newSlot.doctorId])
  /\ UNCHANGED <<slots, nextSlot, bookings, now, ticks, txn, wrote>>

\* A step that goes on to the transaction without the two guards.
rescheduleBooking_findExisting_NoGuard(p) ==
  /\ pc[p] = "rExisting"
  /\ Goto(p, "rOldSlot", loc[p])
  /\ UNCHANGED <<slots, nextSlot, bookings, now, ticks, txn, wrote>>

\* Booking.findOne({ slotId: newSlotId, active, _id: { $ne: id } }), then the same-doctor guard
rescheduleBooking_findExisting(p) ==
  /\ pc[p] = "rExisting"
  /\ IF ActiveBookingOn(loc[p].s, loc[p].b) THEN Respond(p, loc[p], 400, "New slot is already booked")
     ELSE IF loc[p].nd # loc[p].d
     THEN Respond(p, loc[p], 400, "New slot must belong to the same doctor")
     ELSE Goto(p, "rOldSlot", loc[p])
  /\ UNCHANGED <<slots, nextSlot, bookings, now, ticks, txn, wrote>>

\* const oldSlot = await Slot.findById(booking.slotId): read without the session
rescheduleBooking_findOldSlot(p) ==
  /\ pc[p] = "rOldSlot"
  /\ LET oldSlot == slots[loc[p].cur] IN
       IF oldSlot # NoSlot /\ oldSlot.status # "available"
       THEN Goto(p, "rSaveOld", loc[p])
       ELSE Goto(p, "rSaveNew", loc[p])
  /\ UNCHANGED <<slots, nextSlot, bookings, now, ticks, txn, wrote>>

\* catch (err): abortTransaction; rethrown to the outer catch
rescheduleBooking_catch(p) ==
  /\ txn' = abortTransaction(p)
  /\ Respond(p, loc[p], 500, "Server error while rescheduling booking")

\* oldSlot.status = 'available'; await oldSlot.save({ session })
rescheduleBooking_saveOldSlot(p) ==
  /\ pc[p] = "rSaveOld"
  /\ LET err == SaveSlotError(p, loc[p].cur) IN
       IF err # NoError THEN rescheduleBooking_catch(p)
       ELSE /\ txn' = TxnAdd(p, {SlotDoc(loc[p].cur)},
                             [kind |-> "slot", id |-> loc[p].cur, set |-> [status |-> "available"]])
            /\ Goto(p, "rSaveNew", loc[p])
  /\ UNCHANGED <<slots, nextSlot, bookings, now, ticks, wrote>>

\* newSlot.status = 'booked'; await newSlot.save({ session })
rescheduleBooking_saveNewSlot(p) ==
  /\ pc[p] = "rSaveNew"
  /\ LET err == SaveSlotError(p, loc[p].s) IN
       IF err # NoError THEN rescheduleBooking_catch(p)
       ELSE /\ txn' = TxnAdd(p, {SlotDoc(loc[p].s)},
                             [kind |-> "slot", id |-> loc[p].s, set |-> [status |-> "booked"]])
            /\ Goto(p, "rSaveBooking", loc[p])
  /\ UNCHANGED <<slots, nextSlot, bookings, now, ticks, wrote>>

\* booking.slotId = newSlotId; await booking.save({ session })
rescheduleBooking_saveBooking(p) ==
  /\ pc[p] = "rSaveBooking"
  /\ LET set == [slotId |-> loc[p].s]
         err == SaveBookingError(p, loc[p].b, set) IN
       IF loc[p].cur = loc[p].s THEN txn' = txn /\ Goto(p, "rCommit", loc[p])
       ELSE IF err # NoError THEN rescheduleBooking_catch(p)
       ELSE /\ txn' = TxnAdd(p, {BookingDoc(loc[p].b)} \cup IndexKeysOfUpdate(loc[p].b, set),
                             [kind |-> "booking", id |-> loc[p].b, set |-> set])
            /\ Goto(p, "rCommit", loc[p])
  /\ UNCHANGED <<slots, nextSlot, bookings, now, ticks, wrote>>

\* await session.commitTransaction(); 200
rescheduleBooking_commit(p) ==
  /\ pc[p] = "rCommit"
  /\ commitTransaction(p)
  /\ Respond(p, loc[p], 200, "Booking rescheduled successfully")
  /\ UNCHANGED <<nextSlot, now, ticks>>

rescheduleBooking(p, in) ==
  \/ \E userId \in in.actors, id \in 1..MaxBookings, newSlotId \in in.slots :
       rescheduleBooking_findBooking(p, userId, id, newSlotId)
  \/ rescheduleBooking_findCurrentSlot(p)
  \/ rescheduleBooking_findNewSlot(p)
  \/ rescheduleBooking_findExisting(p)
  \/ rescheduleBooking_findOldSlot(p)
  \/ rescheduleBooking_saveOldSlot(p)
  \/ rescheduleBooking_saveNewSlot(p)
  \/ rescheduleBooking_saveBooking(p)
  \/ rescheduleBooking_commit(p)

\* ------------------------------------------------------------ completeBooking
\* const booking = await Booking.findById(id).populate('slotId'), then the guards
completeBooking_findBooking(p, id) ==
  /\ pc[p] = "idle"
  /\ LET l == Request("completeBooking", "admin", id, 0) IN
     IF id > Len(bookings) THEN Respond(p, l, 404, "Booking not found")
     ELSE LET booking == bookings[id]
              slot == slots[booking.slotId] IN
       IF booking.bookingStatus = "completed"
       THEN Respond(p, l, 400, "Booking is already completed")
       ELSE IF booking.bookingStatus = "cancelled"
       THEN Respond(p, l, 400, "Cannot complete a cancelled booking")
       ELSE IF booking.bookingStatus = "expired"
       THEN Respond(p, l, 400, "Cannot complete an expired booking")
       ELSE IF slot # NoSlot /\ ~isSlotInPast(slot)
       THEN Respond(p, l, 400, "Cannot complete a booking for a future slot")
       ELSE Goto(p, "kSave", l)
  /\ UNCHANGED <<slots, nextSlot, bookings, now, ticks, txn, wrote>>

\* A save that also sets the booking's slot back to available.
completeBooking_save_FreesSlot(p) ==
  /\ pc[p] = "kSave"
  /\ LET set == [bookingStatus |-> "completed"]
         s == bookings[loc[p].b].slotId
         db == ApplyWrite([slots |-> slots, bookings |-> bookings],
                          [kind |-> "booking", id |-> loc[p].b, set |-> set]) IN
       /\ \A r \in {BookingDoc(loc[p].b), SlotDoc(s)} : ~Held(p, r)
       /\ bookings' = db.bookings
       /\ slots' = IF slots[s] = NoSlot THEN slots
                   ELSE [slots EXCEPT ![s].status = "available"]
       /\ txn' = MarkStale(txn, p, {BookingDoc(loc[p].b), SlotDoc(s)})
       /\ wrote' = [wrote EXCEPT ![p] = TRUE]
  /\ Respond(p, loc[p], 200, "Booking marked as completed")
  /\ UNCHANGED <<nextSlot, now, ticks>>

\* booking.bookingStatus = 'completed'; await booking.save()
completeBooking_save(p) ==
  /\ pc[p] = "kSave"
  /\ LET set == [bookingStatus |-> "completed"] IN
       DirectWrite(p, {BookingDoc(loc[p].b)} \cup IndexKeysOfUpdate(loc[p].b, set),
                   [kind |-> "booking", id |-> loc[p].b, set |-> set])
  /\ Respond(p, loc[p], 200, "Booking marked as completed")
  /\ UNCHANGED <<nextSlot, now, ticks>>

completeBooking(p) ==
  \/ \E id \in 1..MaxBookings : completeBooking_findBooking(p, id)
  \/ completeBooking_save(p)

\* ------------------------------------------------------------ expirePastBookings
\* A selection that takes every active booking from id i on, whatever its slot.
toExpireIds_AllActive(i) ==
  SelectSeq([j \in 1..Len(bookings) |-> j], LAMBDA j : j >= i /\ IsActive(bookings[j]))

RECURSIVE toExpireIds(_)
\* activeBookings.filter(booking => booking.slotId && isSlotInPast(booking.slotId)).map(_id),
\* over the bookings from id i on
toExpireIds(i) ==
  IF i > Len(bookings) THEN <<>>
  ELSE (IF IsActive(bookings[i]) /\ slots[bookings[i].slotId] # NoSlot
           /\ isSlotInPast(slots[bookings[i].slotId])
        THEN <<i>> ELSE <<>>) \o toExpireIds(i + 1)

\* const activeBookings = await Booking.find({ active }).populate('slotId')
expirePastBookings_find(p) ==
  /\ pc[p] = "idle"
  /\ LET ids == toExpireIds(1)
         l == Request("expirePastBookings", "admin", 0, 0) IN
       IF Len(ids) = 0 THEN RespondCount(p, l, 200, "No bookings to expire", 0)
       ELSE Goto(p, "eUpdate", [l EXCEPT !.todo = ids])
  /\ UNCHANGED <<slots, nextSlot, bookings, now, ticks, txn, wrote>>

\* Booking.updateMany({ _id: { $in: toExpireIds } }, { $set: { bookingStatus: 'expired' } }):
\* one document at a time; modifiedCount counts the documents it changed
expirePastBookings_updateMany(p) ==
  /\ pc[p] = "eUpdate"
  /\ LET id == Head(loc[p].todo)
         set == [bookingStatus |-> "expired"]
         modified == bookings[id].bookingStatus # "expired"
         count == loc[p].count + (IF modified THEN 1 ELSE 0) IN
       /\ IF modified
          THEN DirectWrite(p, {BookingDoc(id)} \cup IndexKeysOfUpdate(id, set),
                           [kind |-> "booking", id |-> id, set |-> set])
          ELSE /\ ~Held(p, BookingDoc(id))
               /\ UNCHANGED <<slots, bookings, txn, wrote>>
       /\ IF Len(loc[p].todo) = 1
          THEN RespondCount(p, loc[p], 200, "Expired past bookings successfully", count)
          ELSE Goto(p, "eUpdate", [loc[p] EXCEPT !.todo = Tail(@), !.count = count])
  /\ UNCHANGED <<nextSlot, now, ticks>>

expirePastBookings(p) ==
  \/ expirePastBookings_find(p)
  \/ expirePastBookings_updateMany(p)

\* ------------------------------------------------------------ getAvailableSlots
\* mongoose.Types.ObjectId.isValid(doctorId): the ids of the doctors are valid,
\* the other strings requests carry are not.
isValidObjectId(id) == id \in Doctors

\* Number.isNaN(new Date(value).getTime()): the date string does not parse.
isNaNDate(value) == value = 0 - 1

\* The order of .sort({ date: 1, startTime: 1 })
SortKey(s) == slots[s].date * MinutesPerDay + parseTimeToMinutes(slots[s].startTime)

\* Slot.find(filter).sort({ date: 1, startTime: 1 }): the documents with status
\* 'available', of the doctor when one is named, with the date within the
\* bounds that are given (<<>> is no bound), in every order the sort allows.
findAvailable(doctorId, gte, lte) ==
  LET found == {s \in SlotIds :
                  /\ slots[s] # NoSlot
                  /\ slots[s].status = "available"
                  /\ doctorId = "" \/ slots[s].doctorId = doctorId
                  /\ gte = <<>> \/ slots[s].date >= gte[1]
                  /\ lte = <<>> \/ slots[s].date <= lte[1]} IN
    {data \in [1..Cardinality(found) -> found] :
       \A i, j \in DOMAIN data :
         i < j => data[i] # data[j] /\ SortKey(data[i]) <= SortKey(data[j])}

\* const slots = await Slot.find(filter).sort(...).lean(); 200 with the list
getAvailableSlots_find(p, l, doctorId, gte, lte) ==
  \E data \in findAvailable(doctorId, gte, lte) : RespondData(p, l, data)

\* GET /api/slots/available?doctorId&date&startDate&endDate: a parameter is
\* <<>> when absent and <<v>> when given, a date v = -1 does not parse.
getAvailableSlots(p, doctorId, date, startDate, endDate) ==
  /\ pc[p] = "idle"
  /\ LET l == [Request("getAvailableSlots", "", 0, 0)
                EXCEPT !.args = <<doctorId, date, startDate, endDate>>] IN
       IF doctorId # "" /\ ~isValidObjectId(doctorId)
       THEN Respond(p, l, 400, "Invalid doctorId")
       ELSE IF date # <<>>
       THEN IF isNaNDate(date[1])
            THEN Respond(p, l, 400, "Invalid date format. Use YYYY-MM-DD")
            ELSE getAvailableSlots_find(p, l, doctorId, date, date)
       ELSE IF startDate # <<>> /\ endDate # <<>>
       THEN IF isNaNDate(startDate[1]) \/ isNaNDate(endDate[1])
            THEN Respond(p, l, 400, "Invalid date format. Use YYYY-MM-DD")
            ELSE IF endDate[1] < startDate[1]
            THEN Respond(p, l, 400, "endDate must be after or equal to startDate")
            ELSE getAvailableSlots_find(p, l, doctorId, startDate, endDate)
       ELSE IF startDate # <<>>
       THEN IF isNaNDate(startDate[1])
            THEN Respond(p, l, 400, "Invalid startDate format. Use YYYY-MM-DD")
            ELSE getAvailableSlots_find(p, l, doctorId, startDate, <<>>)
       ELSE IF endDate # <<>>
       THEN IF isNaNDate(endDate[1])
            THEN Respond(p, l, 400, "Invalid endDate format. Use YYYY-MM-DD")
            ELSE getAvailableSlots_find(p, l, doctorId, <<>>, endDate)
       ELSE getAvailableSlots_find(p, l, doctorId, <<>>, <<>>)
  /\ UNCHANGED <<slots, nextSlot, bookings, now, ticks, txn, wrote>>

\* ------------------------------------------------------------ blockSlot, deleteSlot
\* const slot = await Slot.findById(slotId)
blockSlot_findSlot(p, slotId) ==
  /\ pc[p] = "idle"
  /\ LET slot == slots[slotId]
         l == Request("blockSlot", "admin", 0, slotId) IN
       IF slot = NoSlot THEN Respond(p, l, 404, "Slot not found")
       ELSE Goto(p, "bSave", [l EXCEPT !.flag = (slot.status # "blocked")])
  /\ UNCHANGED <<slots, nextSlot, bookings, now, ticks, txn, wrote>>

\* slot.status = 'blocked'; await slot.save(): nothing is sent when the status
\* was blocked already (flag is FALSE)
blockSlot_save(p) ==
  /\ pc[p] = "bSave"
  /\ IF ~loc[p].flag
     THEN /\ Respond(p, loc[p], 200, "Slot blocked successfully")
          /\ UNCHANGED <<slots, bookings, txn, wrote>>
     ELSE IF slots[loc[p].s] = NoSlot
     THEN /\ ~Held(p, SlotDoc(loc[p].s))
          /\ Respond(p, loc[p], 500, "Server error while blocking slot")
          /\ UNCHANGED <<slots, bookings, txn, wrote>>
     ELSE /\ DirectWrite(p, {SlotDoc(loc[p].s)},
                         [kind |-> "slot", id |-> loc[p].s, set |-> [status |-> "blocked"]])
          /\ Respond(p, loc[p], 200, "Slot blocked successfully")
  /\ UNCHANGED <<nextSlot, now, ticks>>

blockSlot(p, in) ==
  \/ \E slotId \in in.slots : blockSlot_findSlot(p, slotId)
  \/ blockSlot_save(p)

\* const slot = await Slot.findByIdAndDelete(slotId)
deleteSlot(p, slotId) ==
  /\ pc[p] = "idle"
  /\ LET l == Request("deleteSlot", "admin", 0, slotId) IN
     IF slots[slotId] = NoSlot
     THEN /\ Respond(p, l, 404, "Slot not found")
          /\ UNCHANGED <<slots, txn, wrote>>
     ELSE /\ ~Held(p, SlotDoc(slotId))
          /\ slots' = [slots EXCEPT ![slotId] = NoSlot]
          /\ txn' = MarkStale(txn, p, {SlotDoc(slotId)})
          /\ wrote' = [wrote EXCEPT ![p] = TRUE]
          /\ Respond(p, l, 200, "Slot deleted successfully")
  /\ UNCHANGED <<nextSlot, bookings, now, ticks>>

\* ------------------------------------------------------------ generateSlots
\* validateDate of the route: the value is a date that parses (-1 is one that does not).
validateDate(value) == value # -1

\* validateNumber('slotDurationMinutes', 5, 480, false) of the route: the field
\* is absent (0) or an integer from 5 to 480.
validateNumber(value) == value = 0 \/ value \in 5..480

\* Some day of the range has an availability window of the doctor.
HasWindow(doctorId, startDate, endDate) ==
  \E date \in startDate..endDate : \E i \in DOMAIN Availability(doctorId) :
    Availability(doctorId)[i].dayOfWeek = getDay(date)

\* The slot the inner loop emits at minute t of the day.
SlotAt(date, t, duration) ==
  [date |-> date, startTime |-> formatMinutesToTime(t),
   endTime |-> formatMinutesToTime(t + duration)]

\* The first slot the loops reach: first day with a window, its first window.
FirstSlot(doctorId, startDate, endDate, duration) ==
  LET date == CHOOSE x \in startDate..endDate :
                /\ HasWindow(doctorId, x, x)
                /\ \A y \in startDate..endDate : HasWindow(doctorId, y, y) => x <= y
      avail == Availability(doctorId)
      i == CHOOSE j \in DOMAIN avail :
             /\ avail[j].dayOfWeek = getDay(date)
             /\ \A k \in DOMAIN avail : avail[k].dayOfWeek = getDay(date) => j <= k IN
    SlotAt(date, parseTimeToMinutes(avail[i].startTime), duration)

\* The route's validators when it has them (validated; slotRoutes.js exists
\* with and without), then Doctor.findById, then generateSlotsForDoctor up to
\* its first Slot.updateOne.
generateSlots_findDoctor(p, validated, doctorId, startDate, endDate, slotDurationMinutes, timezone) ==
  /\ pc[p] = "idle"
  /\ LET l == [Request("generateSlots", timezone, 0, 0) EXCEPT
                 !.d = doctorId,
                 !.args = <<doctorId, startDate, endDate, slotDurationMinutes>>] IN
     IF validated /\ ~(/\ validateDate(startDate) /\ validateDate(endDate)
                       /\ validateNumber(slotDurationMinutes))
     THEN Respond(p, l, 400, "Validation failed")
     ELSE IF ~DoctorExists(doctorId) THEN Respond(p, l, 404, "Doctor not found")
     ELSE IF startDate = -1 \/ endDate = -1 \/ endDate < startDate
     THEN Respond(p, l, 500, "Server error while generating slots")
     ELSE IF EffectiveDuration(slotDurationMinutes) < 0
     THEN IF HasWindow(doctorId, startDate, endDate)
          THEN Goto(p, "gLoop", [l EXCEPT !.todo =
                 <<FirstSlot(doctorId, startDate, endDate,
                             EffectiveDuration(slotDurationMinutes))>>])
          ELSE RespondCount(p, l, 201, "Generated slots for doctor", 0)
     ELSE LET todo == RangeSlots(doctorId, startDate, endDate,
                                 EffectiveDuration(slotDurationMinutes)) IN
       IF Len(todo) = 0 THEN RespondCount(p, l, 201, "Generated slots for doctor", 0)
       ELSE Goto(p, "gUpsert", [l EXCEPT !.todo = todo])
  /\ UNCHANGED <<slots, nextSlot, bookings, now, ticks, txn, wrote>>

\* A lookup that never finds a stored document: an upsert without the unique index.
SlotWithKey_NoIndex(doctorId, date, startTime) == {}

\* The unique index { doctorId, date, startTime } of Slot: the document with this key
SlotWithKey(doctorId, date, startTime) ==
  {s \in SlotIds : slots[s] # NoSlot /\ slots[s].doctorId = doctorId
                   /\ slots[s].date = date /\ slots[s].startTime = startTime}

\* An upsert step that writes its fields with $set: a matched document gets
\* them as well.
generateSlots_upsert_Set(p) ==
  /\ pc[p] = "gUpsert"
  /\ LET item == Head(loc[p].todo)
         found == SlotWithKey(loc[p].d, item.date, item.startTime)
         upserted == found = {}
         count == loc[p].count + (IF upserted THEN 1 ELSE 0)
         doc == [doctorId |-> loc[p].d, date |-> item.date,
                 startTime |-> item.startTime, endTime |-> item.endTime,
                 status |-> "available", timezone |-> loc[p].u] IN
       /\ IF upserted
          THEN /\ nextSlot < MaxSlotIds
               /\ nextSlot' = nextSlot + 1
               /\ slots' = [slots EXCEPT ![nextSlot + 1] = doc]
          ELSE /\ slots' = [s \in SlotIds |-> IF s \in found THEN doc ELSE slots[s]]
               /\ nextSlot' = nextSlot
       /\ wrote' = [wrote EXCEPT ![p] = TRUE]
       /\ IF Len(loc[p].todo) = 1
          THEN RespondCount(p, loc[p], 201, "Generated slots for doctor", count)
          ELSE Goto(p, "gUpsert", [loc[p] EXCEPT !.todo = Tail(@), !.count = count])
  /\ UNCHANGED <<bookings, now, ticks, txn>>

\* An upsert step that counts the matched documents as well as the inserted ones.
generateSlots_upsert_CountMatched(p) ==
  /\ pc[p] = "gUpsert"
  /\ LET item == Head(loc[p].todo)
         upserted == SlotWithKey(loc[p].d, item.date, item.startTime) = {}
         count == loc[p].count + 1 IN
       /\ IF upserted
          THEN /\ nextSlot < MaxSlotIds
               /\ nextSlot' = nextSlot + 1
               /\ slots' = [slots EXCEPT ![nextSlot + 1] =
                              [doctorId |-> loc[p].d, date |-> item.date,
                               startTime |-> item.startTime, endTime |-> item.endTime,
                               status |-> "available", timezone |-> loc[p].u]]
               /\ wrote' = [wrote EXCEPT ![p] = TRUE]
          ELSE UNCHANGED <<slots, nextSlot, wrote>>
       /\ IF Len(loc[p].todo) = 1
          THEN RespondCount(p, loc[p], 201, "Generated slots for doctor", count)
          ELSE Goto(p, "gUpsert", [loc[p] EXCEPT !.todo = Tail(@), !.count = count])
  /\ UNCHANGED <<bookings, now, ticks, txn>>

\* await Slot.updateOne({ doctorId, date, startTime }, { $setOnInsert: {...} }, { upsert: true });
\* the 201 message carries createdCount, kept in the count field of the response
generateSlots_upsert(p) ==
  /\ pc[p] = "gUpsert"
  /\ LET item == Head(loc[p].todo)
         upserted == SlotWithKey(loc[p].d, item.date, item.startTime) = {}
         count == loc[p].count + (IF upserted THEN 1 ELSE 0) IN
       /\ IF upserted
          THEN /\ nextSlot < MaxSlotIds
               /\ nextSlot' = nextSlot + 1
               /\ slots' = [slots EXCEPT ![nextSlot + 1] =
                              [doctorId |-> loc[p].d, date |-> item.date,
                               startTime |-> item.startTime, endTime |-> item.endTime,
                               status |-> "available", timezone |-> loc[p].u]]
               /\ wrote' = [wrote EXCEPT ![p] = TRUE]
          ELSE UNCHANGED <<slots, nextSlot, wrote>>
       /\ IF Len(loc[p].todo) = 1
          THEN RespondCount(p, loc[p], 201, "Generated slots for doctor", count)
          ELSE Goto(p, "gUpsert", [loc[p] EXCEPT !.todo = Tail(@), !.count = count])
  /\ UNCHANGED <<bookings, now, ticks, txn>>

\* The inner loop with a negative duration: t + duration <= endMinutes holds
\* at every turn, so the slot at t is upserted, t += duration, and the loop
\* goes on in the same window without end.
generateSlots_loop(p) ==
  /\ pc[p] = "gLoop"
  /\ LET item == Head(loc[p].todo)
         duration == EffectiveDuration(loc[p].args[4])
         upserted == SlotWithKey(loc[p].d, item.date, item.startTime) = {}
         count == loc[p].count + (IF upserted THEN 1 ELSE 0) IN
       /\ IF upserted
          THEN /\ nextSlot < MaxSlotIds
               /\ nextSlot' = nextSlot + 1
               /\ slots' = [slots EXCEPT ![nextSlot + 1] =
                              [doctorId |-> loc[p].d, date |-> item.date,
                               startTime |-> item.startTime, endTime |-> item.endTime,
                               status |-> "available", timezone |-> loc[p].u]]
               /\ wrote' = [wrote EXCEPT ![p] = TRUE]
          ELSE UNCHANGED <<slots, nextSlot, wrote>>
       /\ Goto(p, "gLoop",
               [loc[p] EXCEPT !.count = count,
                  !.todo = <<SlotAt(item.date,
                                    parseTimeToMinutes(item.startTime) + duration,
                                    duration)>>])
  /\ UNCHANGED <<bookings, now, ticks, txn>>

generateSlots(p, in) ==
  \/ \E validated \in in.validated, doctorId \in in.doctors, startDate \in in.dates,
        endDate \in in.dates, slotDurationMinutes \in in.durations :
       generateSlots_findDoctor(p, validated, doctorId, startDate, endDate,
                                slotDurationMinutes, "Asia/Kolkata")
  \/ generateSlots_upsert(p)

\* ------------------------------------------------------------ specification
\* Monday 09:30 of the first day.
InitialNow == BaseDay * MinutesPerDay + parseTimeToMinutes(<<9, 30>>)

Init ==
  /\ slots = [s \in SlotIds |-> NoSlot]
  /\ nextSlot = 0
  /\ bookings = <<>>
  /\ now = InitialNow
  /\ ticks = 0
  /\ pc = [p \in AllProcs |-> "idle"]
  /\ loc = [p \in AllProcs |-> NoLoc]
  /\ txn = [p \in AllProcs |-> NoTxn]
  /\ res = [p \in AllProcs |-> NoRes]
  /\ wrote = [p \in AllProcs |-> FALSE]
  /\ started = 0

\* The routes of the API: in names the sets the request parameters are drawn from.
Handler(p, in) ==
  \/ createBooking(p, in)
  \/ cancelBooking(p, in)
  \/ rescheduleBooking(p, in)
  \/ completeBooking(p)
  \/ expirePastBookings(p)
  \/ blockSlot(p, in)
  \/ \E slotId \in in.slots : deleteSlot(p, slotId)
  \/ generateSlots(p, in)
  \/ Finish(p)

\* A step of handler p counts a request when it is the request's first step.
\* Of two idle handlers the lower one takes the next request.
Count(p) ==
  IF pc[p] = "idle"
  THEN /\ started < MaxRequests
       /\ started' = started + 1
       /\ \A q \in MainProcs : q < p => pc[q] # "idle"
  ELSE started' = started

MainInputs ==
  [creators |-> {"u1"}, actors |-> {"u1", "admin"}, slots |-> SlotIds,
   reasons |-> {TRUE}, doctors |-> {"d1"}, durations |-> {DefaultDuration},
   dates |-> {BaseDay}, validated |-> {TRUE}]

\* Two connections send requests concurrently while the clock advances.
Next ==
  \/ \E p \in MainProcs : Handler(p, MainInputs) /\ Count(p)
  \/ Tick

Spec == Init /\ [][Next]_vars

\* One connection sends its requests one after the other.
SeqInputs ==
  [creators |-> Users, actors |-> Users, slots |-> SlotIds,
   reasons |-> BOOLEAN, doctors |-> Doctors, durations |-> {0, DefaultDuration},
   dates |-> {BaseDay}, validated |-> {TRUE}]

NextSeq ==
  \/ Handler(1, SeqInputs) /\ Count(1)
  \/ Tick

SpecSeq == Init /\ [][NextSeq]_vars

\* NumRacers connections send createBooking for the same slot at once: the
\* slot is the first one generated for doctor d1, available and not past.
RaceSlot == CHOOSE s \in SlotIds : \A o \in SlotIds : s <= o

InitRace ==
  /\ slots = [s \in SlotIds |->
                IF s = RaceSlot
                THEN [doctorId |-> "d1", date |-> BaseDay, startTime |-> <<9, 0>>,
                      endTime |-> <<9, 30>>, status |-> "available",
                      timezone |-> "Asia/Kolkata"]
                ELSE NoSlot]
  /\ nextSlot = RaceSlot
  /\ bookings = <<>>
  /\ now = InitialNow
  /\ ticks = 0
  /\ pc = [p \in AllProcs |-> "idle"]
  /\ loc = [p \in AllProcs |-> NoLoc]
  /\ txn = [p \in AllProcs |-> NoTxn]
  /\ res = [p \in AllProcs |-> NoRes]
  /\ wrote = [p \in AllProcs |-> FALSE]
  /\ started = 0

RaceInputs ==
  [creators |-> {"u1", "u2"}, actors |-> {}, slots |-> {RaceSlot},
   reasons |-> {FALSE}, doctors |-> {}, durations |-> {}, dates |-> {}, validated |-> {}]

NextRace == \E p \in AllProcs : createBooking(p, RaceInputs) /\ UNCHANGED started

SpecRace == InitRace /\ [][NextRace]_vars

\* Two admin sessions send one generateSlots request each, at once or one
\* after the other, with any doctor, range and duration.
GenInputs ==
  [creators |-> {}, actors |-> {}, slots |-> {}, reasons |-> {}, doctors |-> Doctors,
   durations |-> {0, DefaultDuration \div 2, DefaultDuration, DefaultDuration + DefaultDuration \div 2},
   dates |-> {-1, BaseDay, BaseDay + 1}, validated |-> BOOLEAN]

NextGen == \E p \in MainProcs : generateSlots(p, GenInputs) /\ UNCHANGED started

SpecGen == Init /\ [][NextGen]_vars

\* The second slot of the states below: none, a slot of the same doctor from
\* another generateSlots call, or a slot of the other doctor.
SecondSlots ==
  {NoSlot,
   [doctorId |-> "d1", date |-> BaseDay, startTime |-> <<9, 30>>, endTime |-> <<10, 0>>,
    status |-> "available", timezone |-> "Asia/Kolkata"],
   [doctorId |-> "d2", date |-> BaseDay, startTime |-> <<9, 0>>, endTime |-> <<9, 30>>,
    status |-> "available", timezone |-> "Asia/Kolkata"]}

\* The states after generateSlots calls that stored one slot of doctor d1 and
\* at most one more slot, and a createBooking of u1 on the first slot: that
\* slot is booked and the booking confirmed. The requests that built the
\* state are not counted.
InitBooked ==
  /\ \E second \in SecondSlots :
       /\ slots = [s \in SlotIds |->
                     IF s = RaceSlot
                     THEN [doctorId |-> "d1", date |-> BaseDay, startTime |-> <<9, 0>>,
                           endTime |-> <<9, 45>>, status |-> "booked",
                           timezone |-> "Asia/Kolkata"]
                     ELSE IF s = RaceSlot + 1 THEN second
                     ELSE NoSlot]
       /\ nextSlot = IF second = NoSlot THEN RaceSlot ELSE RaceSlot + 1
  /\ bookings = <<NewBooking("u1", RaceSlot, "d1")>>
  /\ now = InitialNow
  /\ ticks = 0
  /\ pc = [p \in AllProcs |-> "idle"]
  /\ loc = [p \in AllProcs |-> NoLoc]
  /\ txn = [p \in AllProcs |-> NoTxn]
  /\ res = [p \in AllProcs |-> NoRes]
  /\ wrote = [p \in AllProcs |-> FALSE]
  /\ started = 0

BookedInputs ==
  [creators |-> {"u1"}, actors |-> {"u1"}, slots |-> SlotIds, reasons |-> {TRUE},
   doctors |-> {}, durations |-> {}, dates |-> {}, validated |-> {}]

\* Two connections of the booking's owner send create, cancel and reschedule
\* requests concurrently.
NextBooked ==
  \E p \in MainProcs :
    /\ \/ createBooking(p, BookedInputs)
       \/ cancelBooking(p, BookedInputs)
       \/ rescheduleBooking(p, BookedInputs)
       \/ Finish(p)
    /\ Count(p)

SpecBooked == InitBooked /\ [][NextBooked]_vars

\* The query parameters of GET /api/slots/available.
ListDoctors == {"", "d1", "x"}
ListDates == {<<>>, <<0 - 1>>, <<BaseDay>>}
ListEndDates == {<<>>, <<BaseDay - 1>>, <<BaseDay>>}

\* One connection of user u1 lists the available slots, books and cancels
\* while the clock advances.
NextList ==
  \/ /\ \/ \E doctorId \in ListDoctors, date, startDate \in ListDates,
             endDate \in ListEndDates :
             getAvailableSlots(1, doctorId, date, startDate, endDate)
        \/ createBooking(1, BookedInputs)
        \/ cancelBooking(1, BookedInputs)
        \/ Finish(1)
     /\ Count(1)
  \/ Tick

SpecList == InitBooked /\ [][NextList]_vars

\* Two admin sessions send one generateSlots request each for doctor d2 with
\* a duration that is absent, negative or positive, through the route with
\* and without validators.
DurationInputs ==
  [creators |-> {}, actors |-> {}, slots |-> {}, reasons |-> {}, doctors |-> {"d2"},
   durations |-> {0, 0 - DefaultDuration \div 2, DefaultDuration},
   dates |-> {BaseDay - 1, BaseDay, BaseDay + 1}, validated |-> BOOLEAN]

NextDuration ==
  \E p \in MainProcs :
    /\ generateSlots(p, DurationInputs) \/ generateSlots_loop(p)
    /\ UNCHANGED started

SpecDuration == Init /\ [][NextDuration]_vars

\* The time strings and the slot objects isSlotInPast is called with: times
\* missing, with a part that is not a number, and around the initial clock.
TimeStrings == {<<>>, <<9, -1>>, <<9, 0>>, <<9, 30>>, <<10, 0>>}

TimeSlots ==
  {NoSlot} \cup {[date |-> date, startTime |-> startTime, endTime |-> endTime]
                   : date \in {-1, BaseDay - 1, BaseDay}, startTime \in TimeStrings,
                     endTime \in TimeStrings}

\* isSlotInPast(slot) is called and its result kept in flag.
isSlotInPast_call(p, slot) ==
  /\ pc[p] = "idle"
  /\ Goto(p, "tReturn", [Request("isSlotInPast", "", 0, 0) EXCEPT
                           !.args = <<slot>>, !.flag = isSlotInPast(slot)])
  /\ UNCHANGED <<slots, nextSlot, bookings, now, ticks, txn, wrote, started>>

\* The caller has used the result.
isSlotInPast_return(p) ==
  /\ pc[p] = "tReturn"
  /\ pc' = [pc EXCEPT ![p] = "idle"]
  /\ loc' = [loc EXCEPT ![p] = NoLoc]
  /\ UNCHANGED <<slots, nextSlot, bookings, now, ticks, txn, res, wrote, started>>

\* isSlotInPast is called with any of the slot objects while the clock advances.
NextTime ==
  \/ \E slot \in TimeSlots : isSlotInPast_call(1, slot)
  \/ isSlotInPast_return(1)
  \/ Tick

SpecTime == Init /\ [][NextTime]_vars

\* ------------------------------------------------------------ properties
ActiveBookingsOn(s) == {b \in BookingIds : bookings[b].slotId = s /\ IsActive(bookings[b])}

\* C1: in every reachable state, under any interleaving of create, cancel,
\* reschedule, complete, expirePast, blockSlot, deleteSlot and generateSlots
\* requests, at most one booking with status pending or confirmed references
\* any given slot.
C1_AtMostOneActiveBookingPerSlot ==
  \A s \in SlotIds : Cardinality(ActiveBookingsOn(s)) <= 1

\* A create that passed its pre-checks is about to insert a booking for a slot
\* that already has an active booking.
C1_Witness ==
  \E p \in MainProcs : pc[p] = "cInsert" /\ txn[p].active /\ ActiveBookingOn(loc[p].s, 0)

RaceDone == \A p \in AllProcs : pc[p] = "done"
RaceWinners == {p \in AllProcs : pc[p] = "done" /\ res[p].status = 201}

\* C2: when N create requests for the same available, non-past slot (whose
\* doctor exists) run concurrently, exactly one of them returns success, even
\* when the pre-checks pass for more than one of them: never two successes,
\* and one success once all have answered.
C2_ExactlyOneSuccess ==
  /\ Cardinality(RaceWinners) <= 1
  /\ RaceDone => Cardinality(RaceWinners) = 1

\* All racers have answered, one succeeded, and another one failed inside its
\* transaction, after its pre-checks had passed.
C2_Witness ==
  /\ RaceDone
  /\ Cardinality(RaceWinners) = 1
  /\ \E p \in AllProcs : res[p].status = 500

\* C3: every create request that loses a race for a slot after its pre-checks
\* passed is answered with 400 'Slot is already booked', never with a generic
\* server failure, and it leaves the slots and the bookings as they were.
C3_LoserGetsConflict ==
  [][\A p \in AllProcs :
       (pc[p] \in {"cSaveSlot", "cInsert"} /\ pc'[p] = "done")
       => /\ res'[p].status = 400
          /\ res'[p].message = "Slot is already booked"
          /\ UNCHANGED <<slots, bookings>>]_vars

\* C4: a successful create(user, slot) results in a state where the slot's
\* status is booked and exactly one new booking exists with status confirmed,
\* referencing that user, that slot and the slot's doctor; no other slot or
\* booking is changed.
C4_CreatePostcondition ==
  [][\A p \in MainProcs :
       (pc[p] = "cCommit" /\ pc'[p] = "done" /\ res'[p].status = 201)
       => LET s == res'[p].s
              n == Len(bookings) + 1 IN
            /\ slots[s] # NoSlot
            /\ slots' = [slots EXCEPT ![s] = [@ EXCEPT !.status = "booked"]]
            /\ Len(bookings') = n
            /\ SubSeq(bookings', 1, Len(bookings)) = bookings
            /\ bookings'[n].bookingStatus = "confirmed"
            /\ bookings'[n].userId = res'[p].u
            /\ bookings'[n].slotId = s
            /\ bookings'[n].doctorId = slots'[s].doctorId]_vars

\* A create has answered 201 and its booking is the only active one of its slot.
C4_Witness ==
  \E p \in MainProcs :
    /\ pc[p] = "done" /\ res[p].op = "createBooking" /\ res[p].status = 201
    /\ res[p].message = "Booking created successfully"
    /\ slots[res[p].s].status = "booked"
    /\ \E b \in BookingIds : ActiveBookingsOn(res[p].s) = {b} /\ bookings[b].userId = res[p].u

TransactionalOps == {"createBooking", "cancelBooking", "rescheduleBooking"}
CommitLabels == {"cCommit", "xCommit", "rCommit"}

\* A later write of the same transaction sets field f of the same document again.
Superseded(ws, i, f) ==
  \E j \in DOMAIN ws :
    j > i /\ ws[j].kind = ws[i].kind /\ ws[j].id = ws[i].id /\ f \in DOMAIN ws[j].set

\* The i-th write of ws is visible in the primed state.
Visible(ws, i) ==
  IF ws[i].kind = "slot"
  THEN \A f \in DOMAIN ws[i].set : Superseded(ws, i, f) \/ slots'[ws[i].id][f] = ws[i].set[f]
  ELSE IF ws[i].kind = "booking"
  THEN \A f \in DOMAIN ws[i].set : Superseded(ws, i, f) \/ bookings'[ws[i].id][f] = ws[i].set[f]
  ELSE Len(bookings') = Len(bookings) + 1 /\ bookings'[Len(bookings')] = ws[i].doc

\* The documents the transaction of p has written.
WrittenSlots(p) == {txn[p].writes[i].id : i \in {j \in DOMAIN txn[p].writes : txn[p].writes[j].kind = "slot"}}
WrittenBookings(p) ==
  {txn[p].writes[i].id : i \in {j \in DOMAIN txn[p].writes : txn[p].writes[j].kind = "booking"}}

\* C5: the paired writes of create, cancel and reschedule take effect all
\* together or not at all: a step of one of these handlers other than its
\* commit changes no slot and no booking, the commit makes every write of the
\* transaction visible in one step and touches nothing else, and a request
\* that is answered with a failure has changed nothing.
C5_AllOrNothing ==
  [][\A p \in MainProcs :
       /\ (pc'[p] # pc[p] /\ pc[p] \notin CommitLabels
           /\ (loc[p].op \in TransactionalOps \/ loc'[p].op \in TransactionalOps
               \/ res'[p].op \in TransactionalOps))
          => UNCHANGED <<slots, bookings>>
       /\ (pc[p] \in CommitLabels /\ pc'[p] # pc[p])
          => /\ \A i \in DOMAIN txn[p].writes : Visible(txn[p].writes, i)
             /\ \A s \in SlotIds \ WrittenSlots(p) : slots'[s] = slots[s]
             /\ \A b \in BookingIds \ WrittenBookings(p) : bookings'[b] = bookings[b]
             /\ res'[p].status \in {200, 201}
       /\ (pc'[p] = "done" /\ pc[p] # "done" /\ res'[p].op \in TransactionalOps
           /\ res'[p].status >= 400)
          => /\ UNCHANGED <<slots, bookings>>
             /\ ~wrote'[p]
             /\ ~txn'[p].active]_vars

\* A cancel or reschedule whose transaction failed has answered 500 while the
\* booking it was about is still active on a booked slot.
C5_Witness ==
  \E p \in MainProcs :
    /\ pc[p] = "done" /\ res[p].status = 500
    /\ res[p].op \in {"cancelBooking", "rescheduleBooking"}
    /\ ~wrote[p]

\* C6: after any successful cancel of a booking, in every interleaving with
\* concurrent create, cancel and reschedule requests, the booking's status is
\* cancelled (with the reason stored when one was given) and the slot the
\* booking references is available (or no longer exists); a cancelled booking
\* whose slot is still booked is never produced.
C6_CancelFreesTheSlot ==
  [][\A p \in MainProcs :
       (pc[p] = "xCommit" /\ pc'[p] = "done" /\ res'[p].status = 200)
       => LET b == res'[p].b
              s == bookings'[b].slotId IN
            /\ bookings'[b].bookingStatus = "cancelled"
            /\ loc[p].flag => bookings'[b].cancellationReason
            /\ slots'[s] = NoSlot \/ slots'[s].status = "available"]_vars

\* C7: after create then cancel on a slot that is still not past, a subsequent
\* create on the same slot (by the same or another user) succeeds.  With the
\* requests sent one after the other: a successful cancel leaves the booking's
\* slot available (if it still exists) with no active booking, and a create is
\* refused only when its slot is missing, past, not available or has an
\* active booking, so never because of a cancelled booking.
C7_CancelledBookingNeverBlocks ==
  [][/\ (pc[1] = "xCommit" /\ pc'[1] = "done")
        => LET s == loc[1].cur IN
             \/ slots'[s] = NoSlot
             \/ /\ slots'[s].status = "available"
                /\ ~\E b \in 1..Len(bookings') :
                      bookings'[b].slotId = s /\ bookings'[b].bookingStatus \in ActiveStatuses
     /\ (pc[1] # "done" /\ pc'[1] = "done" /\ res'[1].op = "createBooking"
         /\ res'[1].status # 201)
        => LET s == res'[1].s IN
             \/ slots[s] = NoSlot
             \/ isSlotInPast(slots[s])
             \/ slots[s].status # "available"
             \/ ActiveBookingsOn(s) # {}]_vars

\* A create has answered 201 for a slot that a cancelled booking references.
C7_Witness ==
  /\ pc[1] = "done" /\ res[1].op = "createBooking" /\ res[1].status = 201
  /\ \E b \in BookingIds :
       bookings[b].slotId = res[1].s /\ bookings[b].bookingStatus = "cancelled"
  /\ ActiveBookingsOn(res[1].s) = {Len(bookings)}

\* C8: after a successful reschedule(booking, newSlot), the old slot is
\* available (or no longer exists), the new slot is booked, and the booking
\* references the new slot with status still confirmed and with its user and
\* doctor unchanged, in every interleaving with other requests.
C8_ReschedulePostcondition ==
  [][\A p \in MainProcs :
       (pc[p] = "rCommit" /\ pc'[p] = "done" /\ res'[p].status = 200)
       => LET b == res'[p].b
              old == loc[p].cur
              new == res'[p].s IN
            /\ slots'[old] = NoSlot \/ slots'[old].status = "available"
            /\ slots'[new].status = "booked"
            /\ bookings'[b].slotId = new
            /\ bookings'[b].bookingStatus = "confirmed"
            /\ bookings'[b].userId = bookings[b].userId
            /\ bookings'[b].doctorId = bookings[b].doctorId]_vars

TerminalStatuses == {"cancelled", "completed", "expired"}

\* C9: once a booking's status is cancelled, completed or expired, no
\* operation, in any interleaving of concurrent requests, ever changes its
\* status or its slot reference again.
C9_TerminalStatusesAreFinal ==
  [][\A b \in BookingIds :
       bookings[b].bookingStatus \in TerminalStatuses
       => /\ bookings'[b].bookingStatus = bookings[b].bookingStatus
          /\ bookings'[b].slotId = bookings[b].slotId]_vars

\* The end time of the slot has elapsed.
Elapsed(slot) ==
  /\ slot # NoSlot
  /\ slot.date * MinutesPerDay + slot.endTime[1] * MinutesPerHour + slot.endTime[2] < now

\* The request handler p takes up in this step.
StartedRequest(p) == IF pc'[p] = "done" THEN res'[p] ELSE loc'[p]

\* Handler p answers 400 with the message and has changed nothing.
Refused(p, message) ==
  /\ pc'[p] = "done"
  /\ res'[p].status = 400
  /\ res'[p].message = message
  /\ UNCHANGED <<slots, bookings>>
  /\ ~wrote'[p]

\* C10: create fails with 400 when the target slot is past, cancel fails with
\* 400 when the booking's slot is past, and reschedule fails with 400 when
\* either the booking's current slot or the new slot is past (each at the
\* step that loads the slot); in each case no slot or booking is changed.
C10_PastSlotIsRefused ==
  [][\A p \in MainProcs :
       /\ (pc[p] = "idle" /\ pc'[p] # "idle" /\ StartedRequest(p).op = "createBooking"
           /\ Elapsed(slots[StartedRequest(p).s]))
          => Refused(p, "Cannot book a slot in the past")
       /\ (pc[p] = "xCurrentSlot" /\ pc'[p] # pc[p] /\ Elapsed(slots[loc[p].cur]))
          => Refused(p, "Cannot cancel a booking for a past slot")
       /\ (pc[p] = "rCurrentSlot" /\ pc'[p] # pc[p] /\ Elapsed(slots[loc[p].cur]))
          => Refused(p, "Cannot reschedule a booking for a past slot")
       /\ (pc[p] = "rNewSlot" /\ pc'[p] # pc[p] /\ Elapsed(slots[loc[p].s]))
          => Refused(p, "Cannot reschedule to a past slot")]_vars

\* A cancel and a reschedule of a booking whose slot has elapsed have both
\* been refused, and the booking is still confirmed on its booked slot.
C10_Witness ==
  \E p, q \in MainProcs :
    /\ pc[p] = "done" /\ res[p].message = "Cannot cancel a booking for a past slot"
    /\ pc[q] = "done" /\ res[q].message = "Cannot reschedule a booking for a past slot"
    /\ res[p].b = res[q].b
    /\ bookings[res[p].b].bookingStatus = "confirmed"
    /\ Elapsed(slots[bookings[res[p].b].slotId])
    /\ slots[bookings[res[p].b].slotId].status = "booked"

\* C11: complete(booking) succeeds only when the booking is active and its
\* referenced slot is past; otherwise it fails with 400 and the booking's
\* status is unchanged (requests sent one after the other).
C11_CompleteOnlyPastSlot ==
  [][/\ (pc[1] = "idle" /\ pc'[1] # "idle" /\ StartedRequest(1).op = "completeBooking"
         /\ StartedRequest(1).b \in BookingIds
         /\ ~(IsActive(bookings[StartedRequest(1).b])
              /\ Elapsed(slots[bookings[StartedRequest(1).b].slotId])))
        => /\ pc'[1] = "done"
           /\ res'[1].status = 400
           /\ UNCHANGED <<slots, bookings>>
     /\ (pc[1] = "kSave" /\ pc'[1] = "done" /\ res'[1].status = 200)
        => /\ IsActive(bookings[res'[1].b])
           /\ Elapsed(slots[bookings[res'[1].b].slotId])]_vars

\* The active bookings whose slot's end time has elapsed.
ExpirableIds ==
  {b \in BookingIds : IsActive(bookings[b]) /\ Elapsed(slots[bookings[b].slotId])}

\* The count the expire request of handler p has reached after this step.
CountAfter(p) == IF pc'[p] = "done" THEN res'[p].count ELSE loc'[p].count

\* C12: expirePast sets to expired exactly the bookings that are pending or
\* confirmed and whose referenced slot is past, leaves every other booking and
\* every slot unchanged, and returns the number of bookings it changed; a call
\* that finds no such booking returns 0 and changes nothing (requests sent one
\* after the other).
C12_ExpireExactlyPastActive ==
  [][/\ (pc[1] = "idle" /\ pc'[1] # "idle" /\ StartedRequest(1).op = "expirePastBookings")
        => /\ UNCHANGED <<slots, bookings>>
           /\ IF ExpirableIds = {}
              THEN pc'[1] = "done" /\ res'[1].status = 200 /\ res'[1].count = 0
              ELSE /\ pc'[1] = "eUpdate"
                   /\ {loc'[1].todo[i] : i \in DOMAIN loc'[1].todo} = ExpirableIds
                   /\ Len(loc'[1].todo) = Cardinality(ExpirableIds)
                   /\ loc'[1].count = 0
     /\ (pc[1] = "eUpdate" /\ (pc'[1] # "eUpdate" \/ loc'[1] # loc[1]))
        => LET id == Head(loc[1].todo) IN
             /\ IsActive(bookings[id])
             /\ bookings' = [bookings EXCEPT ![id].bookingStatus = "expired"]
             /\ slots' = slots
             /\ CountAfter(1) = loc[1].count + 1
             /\ IF Len(loc[1].todo) = 1
                THEN pc'[1] = "done" /\ res'[1].status = 200
                ELSE pc'[1] = "eUpdate" /\ loc'[1].todo = Tail(loc[1].todo)]_vars

\* An expire has answered with count 1: one booking is expired, its slot has
\* elapsed, and another booking on a slot that has not elapsed is still active.
C12_Witness ==
  /\ pc[1] = "done" /\ res[1].op = "expirePastBookings" /\ res[1].count = 1
  /\ \E b, c \in BookingIds :
       /\ bookings[b].bookingStatus = "expired" /\ Elapsed(slots[bookings[b].slotId])
       /\ IsActive(bookings[c]) /\ ~Elapsed(slots[bookings[c].slotId])
  /\ ExpirableIds = {}

\* C13: cancel by an actor who is neither the booking's owner nor an admin
\* fails with 403 and changes neither the booking nor its slot; an admin can
\* cancel a booking owned by any user: an admin's cancel is never answered 403
\* (requests sent one after the other).
C13_CancelAuthorization ==
  [][/\ (pc[1] = "idle" /\ pc'[1] # "idle" /\ StartedRequest(1).op = "cancelBooking"
         /\ StartedRequest(1).b \in BookingIds
         /\ StartedRequest(1).u # "admin"
         /\ StartedRequest(1).u # bookings[StartedRequest(1).b].userId)
        => /\ pc'[1] = "done"
           /\ res'[1].status = 403
           /\ UNCHANGED <<slots, bookings>>
           /\ ~wrote'[1]
     /\ (pc[1] # "done" /\ pc'[1] = "done" /\ res'[1].op = "cancelBooking"
         /\ res'[1].u = "admin")
        => res'[1].status \in {200, 400, 404}
     /\ (pc[1] = "idle" /\ pc'[1] # "idle" /\ StartedRequest(1).op = "cancelBooking"
         /\ StartedRequest(1).b \in BookingIds
         /\ StartedRequest(1).u = "admin"
         /\ IsActive(bookings[StartedRequest(1).b]))
        => pc'[1] = "xCurrentSlot"]_vars

\* A cancel by a user who does not own the booking has been answered 403 and
\* the booking is still confirmed on its booked slot.
C13_Witness ==
  /\ pc[1] = "done" /\ res[1].op = "cancelBooking" /\ res[1].status = 403
  /\ res[1].u \notin {"admin", bookings[res[1].b].userId}
  /\ bookings[res[1].b].bookingStatus = "confirmed"
  /\ slots[bookings[res[1].b].slotId].status = "booked"

\* C14: reschedule succeeds only for the booking's owner: any other actor,
\* including an admin who does not own the booking, gets 403 and nothing is
\* changed.
C14_RescheduleOwnerOnly ==
  [][\A p \in MainProcs :
       /\ (pc[p] = "idle" /\ pc'[p] # "idle" /\ StartedRequest(p).op = "rescheduleBooking"
           /\ StartedRequest(p).b \in BookingIds
           /\ StartedRequest(p).u # bookings[StartedRequest(p).b].userId)
          => /\ pc'[p] = "done"
             /\ res'[p].status = 403
             /\ UNCHANGED <<slots, bookings>>
             /\ ~wrote'[p]
       /\ (pc[p] = "rCommit" /\ pc'[p] = "done" /\ res'[p].status = 200)
          => res'[p].u = bookings'[res'[p].b].userId]_vars

\* An admin's reschedule of another user's active booking to an available
\* slot has been answered 403; the booking and both slots are as before.
C14_Witness ==
  \E p \in MainProcs :
    /\ pc[p] = "done" /\ res[p].op = "rescheduleBooking" /\ res[p].status = 403
    /\ res[p].u = "admin"
    /\ bookings[res[p].b].userId # "admin"
    /\ bookings[res[p].b].bookingStatus = "confirmed"
    /\ bookings[res[p].b].slotId # res[p].s
    /\ slots[res[p].s].status = "available"
    /\ ~wrote[p]

\* The slot documents that are stored.
StoredSlots == {slots[s] : s \in SlotIds} \ {NoSlot}

\* The (doctor, date, start-time) key of a stored slot document.
KeyOf(slot) == <<slot.doctorId, slot.date, slot.startTime>>

\* The documents one generateSlots call for doctor d over [from, to] stores
\* into an empty collection.
OneCall(d, from, to, duration, timezone) ==
  LET todo == RangeSlots(d, from, to, duration) IN
    {[doctorId |-> d, date |-> todo[i].date, startTime |-> todo[i].startTime,
      endTime |-> todo[i].endTime, status |-> "available", timezone |-> timezone]
       : i \in DOMAIN todo}

\* Handler p has answered a generateSlots request with 201.
Generated(p) == pc[p] = "done" /\ res[p].op = "generateSlots" /\ res[p].status = 201

\* Two generateSlots calls for the same doctor and duration whose date ranges
\* overlap have been answered, and together they created all that is stored.
TwoCalls(p, q) ==
  /\ p # q /\ Generated(p) /\ Generated(q)
  /\ res[p].args[1] = res[q].args[1]
  /\ EffectiveDuration(res[p].args[4]) = EffectiveDuration(res[q].args[4])
  /\ res[p].args[2] <= res[q].args[3] /\ res[q].args[2] <= res[p].args[3]
  /\ res[p].count + res[q].count = nextSlot

Min(a, b) == IF a <= b THEN a ELSE b

Max(a, b) == IF a >= b THEN a ELSE b

C15_SameAsOneCall ==
  \A p, q \in MainProcs :
    TwoCalls(p, q) =>
      StoredSlots = OneCall(res[p].args[1], Min(res[p].args[2], res[q].args[2]),
                            Max(res[p].args[3], res[q].args[3]),
                            EffectiveDuration(res[p].args[4]), res[p].u)

\* C15: two generateSlots calls for the same doctor with the same or
\* overlapping date ranges and the same duration leave the same slot set as
\* one call over the union of the ranges; an upsert whose key is stored
\* changes nothing and does not count, an upsert whose key is not stored
\* inserts that one slot and counts one, and a call that reached its upserts
\* is answered 201.
C15_GenerateIdempotent ==
  [][/\ \A p \in MainProcs :
          (pc[p] = "gUpsert" /\ (pc'[p] # "gUpsert" \/ loc'[p] # loc[p]))
          => LET item == Head(loc[p].todo)
                 key == <<loc[p].d, item.date, item.startTime>>
                 existed == \E slot \in StoredSlots : KeyOf(slot) = key IN
               /\ CountAfter(p) = loc[p].count + (IF existed THEN 0 ELSE 1)
               /\ IF existed THEN slots' = slots
                  ELSE \E s \in SlotIds :
                         /\ slots[s] = NoSlot
                         /\ slots' = [slots EXCEPT ![s] =
                                        [doctorId |-> loc[p].d, date |-> item.date,
                                         startTime |-> item.startTime,
                                         endTime |-> item.endTime,
                                         status |-> "available", timezone |-> loc[p].u]]
               /\ pc'[p] = "done" => res'[p].status = 201
     /\ C15_SameAsOneCall']_vars

\* Two calls with different overlapping ranges have been answered; the later
\* one met a stored slot and counted only the one it added.
C15_Witness ==
  \E p, q \in MainProcs :
    /\ TwoCalls(p, q)
    /\ res[p].args[3] < res[q].args[3]
    /\ res[p].count = 1
    /\ res[q].count = 1
    /\ Len(RangeSlots(res[q].args[1], res[q].args[2], res[q].args[3],
                      EffectiveDuration(res[q].args[4]))) = 2

\* The slots the generator is to emit for one window of one day: k counts the
\* whole durations that fit between the window's start and end.
SlotsOfWindow(date, window, duration) ==
  LET windowStart == window.startTime[1] * MinutesPerHour + window.startTime[2]
      windowEnd == window.endTime[1] * MinutesPerHour + window.endTime[2]
      Clock(m) == <<m \div MinutesPerHour, m % MinutesPerHour>> IN
    {[date |-> date, startTime |-> Clock(windowStart + k * duration),
      endTime |-> Clock(windowStart + (k + 1) * duration)]
       : k \in 0..((windowEnd - windowStart) \div duration - 1)}

\* The windows of doctor d that match the day of the week of date.
MatchingWindows(d, date) ==
  {Availability(d)[i] : i \in {j \in DOMAIN Availability(d) :
                                 Availability(d)[j].dayOfWeek = date % 7}}

\* What the generator is to emit for doctor d over the days from..to.
ExpectedSlots(d, from, to, duration) ==
  UNION {UNION {SlotsOfWindow(date, w, duration) : w \in MatchingWindows(d, date)}
           : date \in from..to}

\* The list handler p is to upsert after this step.
TodoAfter(p) == IF pc'[p] = "gUpsert" THEN loc'[p].todo ELSE <<>>

\* C16: for every day of the range and every availability window matching the
\* day's day of week, generateSlots emits exactly floor((windowEnd -
\* windowStart) / duration) consecutive slots from windowStart on, each of
\* length duration and inside the window; a remainder shorter than the
\* duration gives no slot and a day without a matching window gives none.
C16_GeneratedSlots ==
  [][\A p \in MainProcs :
       (pc[p] = "idle" /\ pc'[p] # "idle" /\ StartedRequest(p).op = "generateSlots"
        /\ StartedRequest(p).args[1] \in Doctors
        /\ StartedRequest(p).args[2] # -1
        /\ StartedRequest(p).args[2] <= StartedRequest(p).args[3])
       => LET a == StartedRequest(p).args
              duration == IF a[4] = 0 THEN DefaultDuration ELSE a[4]
              todo == TodoAfter(p) IN
            /\ {todo[i] : i \in DOMAIN todo} = ExpectedSlots(a[1], a[2], a[3], duration)
            /\ \A i, j \in DOMAIN todo : i # j => todo[i] # todo[j]
            /\ \A i \in DOMAIN todo :
                 \E w \in MatchingWindows(a[1], todo[i].date) :
                   LET s == todo[i].startTime[1] * MinutesPerHour + todo[i].startTime[2]
                       e == todo[i].endTime[1] * MinutesPerHour + todo[i].endTime[2]
                       ws == w.startTime[1] * MinutesPerHour + w.startTime[2]
                       we == w.endTime[1] * MinutesPerHour + w.endTime[2] IN
                     /\ e - s = duration
                     /\ ws <= s /\ e <= we
                     /\ (s - ws) % duration = 0
            /\ (todo = <<>>) => (pc'[p] = "done" /\ res'[p].status = 201
                                 /\ res'[p].count = 0)]_vars

\* A request over two days with 45-minute windows and 30-minute slots has
\* just been expanded: one slot per day, each ending 15 minutes before its window.
C16_Witness ==
  \E p \in MainProcs :
    /\ pc[p] = "gUpsert" /\ loc[p].count = 0
    /\ loc[p].args[2] < loc[p].args[3]
    /\ EffectiveDuration(loc[p].args[4]) = DefaultDuration
    /\ Len(loc[p].todo) = 2
    /\ \A i \in DOMAIN loc[p].todo :
         \E w \in MatchingWindows(loc[p].args[1], loc[p].todo[i].date) :
           parseTimeToMinutes(w.endTime) - parseTimeToMinutes(loc[p].todo[i].endTime)
             = DefaultDuration \div 2

\* The createdCount handler p has reached or returned.
CreatedCount(p) ==
  IF pc[p] = "gUpsert" THEN loc[p].count
  ELSE IF Generated(p) THEN res[p].count ELSE 0

RECURSIVE SumCreated(_)
SumCreated(ps) ==
  IF ps = {} THEN 0
  ELSE LET p == CHOOSE x \in ps : TRUE IN CreatedCount(p) + SumCreated(ps \ {p})

\* C17: when generateSlots calls run concurrently, none of them errors, no
\* (doctor, date, start-time) key is stored twice, and their createdCount
\* values sum to the number of slots that were newly stored.
C17_ConcurrentGenerate ==
  /\ \A p \in MainProcs :
       (pc[p] = "done" /\ res[p].op = "generateSlots" /\ res[p].args[1] \in Doctors
        /\ res[p].args[2] # -1 /\ res[p].args[2] <= res[p].args[3])
       => res[p].status = 201
  /\ \A s, o \in SlotIds :
       (s # o /\ slots[s] # NoSlot /\ slots[o] # NoSlot) => KeyOf(slots[s]) # KeyOf(slots[o])
  /\ SumCreated(MainProcs) = Cardinality({s \in SlotIds : slots[s] # NoSlot})

\* Two calls with the same arguments have both been answered and each created
\* one of the two slots: their upserts were interleaved.
C17_Witness ==
  /\ \A p \in MainProcs : Generated(p) /\ res[p].count = 1
  /\ res[1].args = res[2].args
  /\ Cardinality(StoredSlots) = 2

\* C18: in every reachable state no two stored slots share the same
\* (doctor, date, start-time) triple.
C18_SlotKeyUnique ==
  \A s \in SlotIds : \A o \in SlotIds \ {s} :
    (slots[s] # NoSlot /\ slots[o] # NoSlot)
    => \/ slots[s].doctorId # slots[o].doctorId
       \/ slots[s].date # slots[o].date
       \/ slots[s].startTime # slots[o].startTime

\* A generateSlots call over stored slots has been answered with count 0; two
\* slots of one doctor and one day are stored, with different start times.
C18_Witness ==
  /\ \E p \in MainProcs : Generated(p) /\ res[p].count = 0
  /\ \E s \in SlotIds : \E o \in SlotIds \ {s} :
       /\ slots[s] # NoSlot /\ slots[o] # NoSlot
       /\ slots[s].doctorId = slots[o].doctorId
       /\ slots[s].date = slots[o].date
       /\ slots[s].startTime # slots[o].startTime

\* C19: generateSlots called with an unparseable startDate or endDate, or with
\* endDate before startDate, fails with a validation error (400) and inserts
\* no slot.
C19_InvalidRangeIsValidationError ==
  [][\A p \in MainProcs :
       (pc[p] = "idle" /\ pc'[p] # "idle" /\ StartedRequest(p).op = "generateSlots"
        /\ StartedRequest(p).args[1] \in Doctors
        /\ \/ StartedRequest(p).args[2] = -1
           \/ StartedRequest(p).args[3] = -1
           \/ StartedRequest(p).args[3] < StartedRequest(p).args[2])
       => /\ pc'[p] = "done"
          /\ res'[p].status = 400
          /\ slots' = slots]_vars

\* C20: a create on a slot for which an earlier create succeeded and whose
\* booking is still active is rejected with 400, creates no booking, and
\* reports the error 'Slot is already booked' (requests sent one after the other).
C20_SecondCreateSaysAlreadyBooked ==
  [][(pc[1] = "idle" /\ pc'[1] # "idle" /\ StartedRequest(1).op = "createBooking"
      /\ slots[StartedRequest(1).s] # NoSlot
      /\ ActiveBookingsOn(StartedRequest(1).s) # {})
     => /\ pc'[1] = "done"
        /\ res'[1].status = 400
        /\ res'[1].message = "Slot is already booked"
        /\ bookings' = bookings]_vars

\* C21: once a slot's status is blocked it stays blocked: no create, cancel,
\* reschedule, complete, expirePast or generateSlots request changes the
\* status of a blocked slot (requests sent one after the other; only a
\* deleteSlot may remove the slot).
C21_BlockedStaysBlocked ==
  [][\A s \in SlotIds :
       (slots[s] # NoSlot /\ slots[s].status = "blocked")
       => \/ slots'[s].status = "blocked"
          \/ (slots'[s] = NoSlot /\ pc'[1] = "done" /\ res'[1].op = "deleteSlot")]_vars

\* C22: deleteSlot removes a slot only when no pending or confirmed booking
\* references it, so every active booking references a slot that exists
\* (requests sent one after the other).
C22_ActiveBookingHasSlot ==
  \A b \in BookingIds : IsActive(bookings[b]) => slots[bookings[b].slotId] # NoSlot

\* Another request has taken, or is taking, the new slot of the reschedule of
\* handler p: an active booking other than p's references it, or the open
\* transaction of a create or reschedule aimed at it holds the slot document.
RivalFor(p) ==
  \/ \E b \in BookingIds :
       b # loc[p].b /\ IsActive(bookings[b]) /\ bookings[b].slotId = loc[p].s
  \/ \E q \in MainProcs \ {p} :
       /\ txn[q].active
       /\ loc[q].op \in {"createBooking", "rescheduleBooking"}
       /\ loc[q].s = loc[p].s
       /\ SlotDoc(loc[p].s) \in txn[q].locks

\* C23: a reschedule to slot s that passed its pre-checks and then loses to a
\* create on s or another reschedule to s inside its transaction is answered
\* with the Conflict of the pre-check (400 'New slot is already booked') and
\* leaves bookings and slots unchanged.
C23_RescheduleLoserGetsConflict ==
  [][\A p \in MainProcs :
       (pc[p] \in {"rSaveOld", "rSaveNew", "rSaveBooking", "rCommit"}
        /\ pc'[p] = "done" /\ res'[p].status # 200 /\ RivalFor(p))
       => /\ res'[p].status = 400
          /\ res'[p].message = "New slot is already booked"
          /\ UNCHANGED <<slots, bookings>>]_vars

\* C24: every booking produced by create has status confirmed; starting from
\* an empty booking store, no reachable state contains a booking with status
\* pending.
C24_NoPendingBooking ==
  [][/\ Len(bookings') >= Len(bookings)
     /\ \A b \in DOMAIN bookings' :
          /\ b \notin DOMAIN bookings => bookings'[b].bookingStatus = "confirmed"
          /\ bookings'[b].bookingStatus # "pending"]_vars

\* Two creates have committed; the first booking has since been cancelled and
\* the second one is confirmed.
C24_Witness ==
  /\ Len(bookings) >= 2
  /\ bookings[1].bookingStatus = "cancelled"
  /\ bookings[Len(bookings)].bookingStatus = "confirmed"
  /\ \E p \in MainProcs : pc[p] = "done" /\ res[p].op = "createBooking" /\ res[p].status = 201

\* The time isSlotInPast goes by: the end time, the start time when the end
\* time is absent.
TimeOf(slot) == IF slot.endTime = <<>> THEN slot.startTime ELSE slot.endTime

\* The slot has a date and a time that parses.
HasInstant(slot) ==
  /\ slot # NoSlot
  /\ slot.date # -1
  /\ TimeOf(slot) # <<>>
  /\ \A i \in DOMAIN TimeOf(slot) : TimeOf(slot)[i] # -1

\* The instant formed from the slot's date and that time, in minutes.
InstantOf(slot) ==
  slot.date * 24 * MinutesPerHour + TimeOf(slot)[1] * MinutesPerHour + TimeOf(slot)[2]

\* C25: isSlotInPast(slot) is true exactly when the instant formed from the
\* slot's date and its end time (its start time when the end time is absent)
\* is strictly before the current instant; it is false when the two are equal
\* and false when the date or the time is missing or unparseable.
C25_IsSlotInPast ==
  [][(pc[1] = "idle" /\ pc'[1] = "tReturn")
     => LET slot == loc'[1].args[1]
            result == loc'[1].flag IN
          /\ result = (HasInstant(slot) /\ InstantOf(slot) < now)
          /\ (HasInstant(slot) /\ InstantOf(slot) = now) => ~result
          /\ ~HasInstant(slot) => ~result]_vars

\* isSlotInPast has answered FALSE for a slot whose end is the present instant.
C25_Witness ==
  /\ pc[1] = "tReturn"
  /\ HasInstant(loc[1].args[1])
  /\ InstantOf(loc[1].args[1]) = now
  /\ ~loc[1].flag

\* C26: in every reachable state, under any interleaving of requests, a slot
\* referenced by a pending or confirmed booking never has status available.
C26_ActiveBookingSlotNotAvailable ==
  \A b \in BookingIds :
    (IsActive(bookings[b]) /\ slots[bookings[b].slotId] # NoSlot)
    => slots[bookings[b].slotId].status # "available"

\* C27: no slot is leaked: in every reachable state every slot with status
\* booked is referenced by a booking whose status is confirmed, completed or
\* expired.
C27_NoLeakedSlot ==
  \A s \in SlotIds :
    (slots[s] # NoSlot /\ slots[s].status = "booked")
    => \E b \in BookingIds :
         /\ bookings[b].slotId = s
         /\ bookings[b].bookingStatus \in {"confirmed", "completed", "expired"}

\* The caller of the request may act on the booking: its owner or an admin
\* for cancel, its owner for reschedule, an admin for complete.
Authorized(request) ==
  IF request.op = "cancelBooking"
  THEN request.u \in {"admin", bookings[request.b].userId}
  ELSE IF request.op = "rescheduleBooking"
  THEN request.u = bookings[request.b].userId
  ELSE request.u = "admin"

\* C28: cancel, reschedule and complete by a caller who may act on the booking
\* each fail with 400 when the booking's status is cancelled, completed or
\* expired, and then change neither the booking nor any slot (requests sent
\* one after the other).
C28_TerminalBookingIsRefused ==
  [][(pc[1] = "idle" /\ pc'[1] # "idle"
      /\ StartedRequest(1).op \in {"cancelBooking", "rescheduleBooking", "completeBooking"}
      /\ StartedRequest(1).b \in BookingIds
      /\ bookings[StartedRequest(1).b].bookingStatus \in {"cancelled", "completed", "expired"}
      /\ Authorized(StartedRequest(1)))
     => /\ pc'[1] = "done"
        /\ res'[1].status = 400
        /\ UNCHANGED <<slots, bookings>>
        /\ ~wrote'[1]]_vars

\* A cancel of an expired booking by its owner has been answered 400; the
\* booking is still expired.
C28_Witness ==
  /\ pc[1] = "done" /\ res[1].op = "cancelBooking" /\ res[1].status = 400
  /\ res[1].b \in BookingIds
  /\ res[1].u = bookings[res[1].b].userId
  /\ bookings[res[1].b].bookingStatus = "expired"

\* C29: create on a slot whose status is booked or blocked fails with 400
\* and writes nothing; a create changes a slot's status to booked only from
\* available.
C29_CreateOnlyFromAvailable ==
  [][\A p \in MainProcs :
       /\ (pc[p] = "idle" /\ pc'[p] # "idle" /\ StartedRequest(p).op = "createBooking"
           /\ slots[StartedRequest(p).s] # NoSlot
           /\ slots[StartedRequest(p).s].status \in {"booked", "blocked"})
          => /\ pc'[p] = "done"
             /\ res'[p].status = 400
             /\ UNCHANGED <<slots, bookings>>
             /\ ~wrote'[p]
       /\ (pc[p] = "cCommit" /\ pc'[p] = "done" /\ res'[p].status = 201)
          => slots[res'[p].s].status = "available"]_vars

\* The reschedule of handler p ends at this step with the given status and
\* has changed nothing.
RescheduleRefused(p, status) ==
  /\ pc'[p] = "done"
  /\ res'[p].op = "rescheduleBooking"
  /\ res'[p].status = status
  /\ UNCHANGED <<slots, bookings>>
  /\ ~wrote'[p]
  /\ ~txn'[p].active

\* C30: reschedule fails and changes nothing when the new slot does not exist
\* (404), when the new slot's status is not available (400), when another
\* active booking references the new slot (400), or when the new slot belongs
\* to a doctor other than the booking's doctor (400).
C30_RescheduleRefusals ==
  [][\A p \in MainProcs :
       /\ (pc[p] = "rNewSlot" /\ pc'[p] # "rNewSlot")
          => /\ slots[loc[p].s] = NoSlot => RescheduleRefused(p, 404)
             /\ (slots[loc[p].s] # NoSlot /\ slots[loc[p].s].status # "available")
                => RescheduleRefused(p, 400)
       /\ (pc[p] = "rExisting" /\ pc'[p] # "rExisting")
          => /\ (\E b \in BookingIds : b # loc[p].b /\ IsActive(bookings[b])
                                       /\ bookings[b].slotId = loc[p].s)
                => RescheduleRefused(p, 400)
             /\ (slots[loc[p].s] # NoSlot
                 /\ slots[loc[p].s].doctorId # bookings[loc[p].b].doctorId)
                => RescheduleRefused(p, 400)]_vars

\* A reschedule to a slot of the other doctor has been answered 400; the
\* booking is still confirmed on its booked slot and the new slot available.
C30_Witness ==
  \E p \in MainProcs :
    /\ pc[p] = "done" /\ res[p].op = "rescheduleBooking" /\ res[p].status = 400
    /\ slots[res[p].s] # NoSlot
    /\ slots[res[p].s].status = "available"
    /\ slots[res[p].s].doctorId # bookings[res[p].b].doctorId
    /\ bookings[res[p].b].bookingStatus = "confirmed"
    /\ bookings[res[p].b].slotId # res[p].s
    /\ slots[bookings[res[p].b].slotId].status = "booked"

C32_GenerateKeepsExistingSlots ==
  [][\A p \in MainProcs :
       (StartedRequest(p).op = "generateSlots"
        /\ (pc'[p] # pc[p] \/ loc'[p] # loc[p]) /\ pc[p] # "done")
       => /\ \A s \in SlotIds : slots[s] # NoSlot => slots'[s] = slots[s]
          /\ bookings' = bookings]_vars

\* A generateSlots call over stored slots has been answered with count 0; one
\* of the slots is booked and has a confirmed booking, the other is blocked.
C32_Witness ==
  \E p \in MainProcs :
    /\ pc[p] = "done" /\ res[p].op = "generateSlots" /\ res[p].status = 201
    /\ res[p].count = 0
    /\ \E s, o \in SlotIds :
         /\ slots[s] # NoSlot /\ slots[s].status = "booked"
         /\ slots[o] # NoSlot /\ slots[o].status = "blocked"
         /\ \E b \in BookingIds : bookings[b].slotId = s /\ IsActive(bookings[b])

\* C33: generateSlots terminates for every input: a slotDurationMinutes that
\* is not a positive number is treated as 30, so a request that reaches the
\* generator walks the slots of duration 30 and never enters a walk that does
\* not end; every turn of a walk moves forward in the window.
C33_GenerateTerminates ==
  [][\A p \in MainProcs :
       /\ (pc[p] = "idle" /\ pc'[p] \notin {"idle", "done"})
          => LET a == loc'[p].args
                 duration == IF a[4] > 0 THEN a[4] ELSE DefaultDuration IN
               /\ pc'[p] = "gUpsert"
               /\ {loc'[p].todo[i] : i \in DOMAIN loc'[p].todo}
                    = ExpectedSlots(a[1], a[2], a[3], duration)
       /\ (pc[p] # "idle" /\ pc'[p] # "done" /\ loc'[p] # loc[p])
          => LET before == Head(loc[p].todo)
                 after == Head(loc'[p].todo) IN
               \/ after.date > before.date
               \/ /\ after.date = before.date
                  /\ parseTimeToMinutes(after.startTime)
                       > parseTimeToMinutes(before.startTime)]_vars

\* Handler p answers with the status and the message.
Answers(p, status, message) ==
  /\ pc'[p] = "done"
  /\ res'[p].status = status
  /\ res'[p].message = message

C35_ForbiddenWhateverTheState ==
  [][\A p \in MainProcs :
       (/\ pc[p] = "idle" /\ pc'[p] # "idle"
        /\ StartedRequest(p).op \in {"cancelBooking", "rescheduleBooking"}
        /\ StartedRequest(p).b \in BookingIds
        /\ bookings[StartedRequest(p).b].userId # StartedRequest(p).u
        /\ (StartedRequest(p).op = "cancelBooking" => StartedRequest(p).u # "admin"))
       => /\ Answers(p, 403,
                     IF StartedRequest(p).op = "cancelBooking"
                     THEN "Not authorized to cancel this booking"
                     ELSE "Not authorized to reschedule this booking")
          /\ UNCHANGED <<slots, bookings, txn>>]_vars

\* A stranger's cancel of a booking that is already cancelled is answered 403.
C35_Witness ==
  \E p \in MainProcs :
    /\ pc[p] = "done" /\ res[p].op = "cancelBooking" /\ res[p].status = 403
    /\ res[p].u = "u2"
    /\ bookings[res[p].b].bookingStatus = "cancelled"
    /\ slots[bookings[res[p].b].slotId].status = "available"

\* C36: in every reachable state a booking whose slot exists has the doctor
\* of that slot: create copies the slot's doctor and reschedule moves a
\* booking only to a slot of the same doctor.
C36_BookingDoctorIsSlotDoctor ==
  \A b \in BookingIds :
    slots[bookings[b].slotId] # NoSlot
    => bookings[b].doctorId = slots[bookings[b].slotId].doctorId

\* A reschedule has moved a booking to another slot of its doctor.
C36_Witness ==
  \E p \in MainProcs :
    /\ pc[p] = "done" /\ res[p].op = "rescheduleBooking" /\ res[p].status = 200
    /\ bookings[res[p].b].slotId = res[p].s
    /\ res[p].s # RaceSlot
    /\ slots[res[p].s] # NoSlot
    /\ slots[res[p].s].doctorId = bookings[res[p].b].doctorId

\* C37: a reschedule of a confirmed booking to the slot it already references
\* fails and leaves the booking and the slot unchanged: when the request was
\* sent for the slot the booking referenced, and the booking is confirmed and
\* still references that slot when the request is answered, the answer is
\* not a success and no slot and no booking changes.
C37_RescheduleToOwnSlotFails ==
  [][\A p \in MainProcs :
       (/\ pc[p] \notin {"idle", "done"} /\ pc'[p] = "done"
        /\ loc[p].op = "rescheduleBooking"
        /\ loc[p].cur = loc[p].s
        /\ bookings[loc[p].b].slotId = loc[p].s
        /\ bookings[loc[p].b].bookingStatus = "confirmed")
       => /\ res'[p].status # 200
          /\ UNCHANGED <<slots, bookings>>]_vars

\* The time intervals of two slots overlap.
Overlap(a, b) ==
  /\ parseTimeToMinutes(a.startTime) < parseTimeToMinutes(b.endTime)
  /\ parseTimeToMinutes(b.startTime) < parseTimeToMinutes(a.endTime)

\* C38: the availability windows of a doctor do not overlap, and after any
\* sequence of generateSlots calls, also over the same dates with different
\* durations, no two stored slots of that doctor on the same date have
\* overlapping time intervals.
C38_NoOverlappingSlots ==
  \A s, u \in SlotIds :
    (/\ s # u /\ slots[s] # NoSlot /\ slots[u] # NoSlot
     /\ slots[s].doctorId = slots[u].doctorId
     /\ slots[s].date = slots[u].date)
    => ~Overlap(slots[s], slots[u])

\* C39: every slot a listing of the available slots returns has status
\* available and is bookable at the instant of the listing: its time is not
\* over and no active booking references it, so a create on it would not be
\* rejected as past or as already booked.
C39_ListedSlotsAreBookable ==
  [][\A p \in MainProcs :
       (/\ pc[p] = "idle" /\ pc'[p] = "done"
        /\ res'[p].op = "getAvailableSlots" /\ res'[p].status = 200)
       => \A i \in DOMAIN res'[p].data :
            LET s == res'[p].data[i] IN
              /\ slots[s] # NoSlot
              /\ slots[s].status = "available"
              /\ ~Elapsed(slots[s])
              /\ ~\E b \in BookingIds :
                    /\ bookings[b].slotId = s
                    /\ bookings[b].bookingStatus \in {"pending", "confirmed"}]_vars

====
